---------------------------- MODULE Spec2Model ----------------------------
(***************************************************************************)
(* A model of the hy-chain core: the binary wire codec (BufferWriter,      *)
(* BufferReader, VQL integers, serialize / deserialize), the Merkle        *)
(* engine, the in-memory block storage and the genesis block pipeline.     *)
(*                                                                         *)
(* JavaScript numbers that may leave the signed 31-bit range are kept as   *)
(* pairs <<hi, lo>> standing for hi * 2^16 + lo with lo in 0..65535, so    *)
(* that the 32-bit operators (>>>, <<, &, |) keep their exact width.       *)
(***************************************************************************)
EXTENDS Integers, Sequences, FiniteSets, TLC

(***************************************************************************)
(* Bounds of the model.                                                    *)
(***************************************************************************)
MaxStrLen == 2
MaxBufLen == 2
MaxArrLen == 2
MaxSmallInt == 130
MaxLeaves == 4
MaxId == 2
MaxSeq == 1
MaxKeyPart == 2
MaxWrites == 2
MaxTags == 1
MaxTasks == 3
MaxMutexes == 3
MaxCalls == 2
MaxTreeLeaves == 5
MaxPermits == 2
MaxAccesses == 3

VARIABLES
  cKind,     \* what the codec run exercises: "codec" or "vql"
  cIn,       \* the value given to serialize / writeInt32VQL
  cPc,       \* position of the codec run
  cWriter,   \* the BufferWriter
  cReader,   \* the BufferReader built from the drained writer
  cOut,      \* the value returned by deserialize / readIntVQL
  cErr       \* the error thrown by the read side

codecVars == <<cKind, cIn, cPc, cWriter, cReader, cOut, cErr>>

VARIABLES
  mLeaves,   \* the ordered list of leaves given to the Merkle engine
  mIndex,    \* position in mLeaves (from 1) of the leaf the proof is about
  mHashed,   \* TRUE when generateProof is given hashData(leaf) instead of leaf
  mPc,       \* position of the Merkle run
  mRoot,     \* the HashEntity returned by computeRoot
  mProof,    \* the list of HashEntity returned by generateProof
  mErr,      \* the error thrown by generateProof or verifyProof
  mTampered, \* TRUE once a sibling of the proof has been replaced
  mVerified  \* the result of verifyProof

merkleVars == <<mLeaves, mIndex, mHashed, mPc, mRoot, mProof, mErr, mTampered, mVerified>>

VARIABLES
  blocksById,     \* InMemoryStorage._blocksById, a map from _id to block
  blocksBySeq,    \* InMemoryStorage._blocksBySeq, a map from sequence to block
  sDisposed,      \* AbstractStorageObject.#internalState.disposed
  sListeners,     \* AbstractStorageObject.#internalState.disposeListeners
  lastOp,         \* the latest storage operation called by a client
  lastArg,        \* its argument, as a block record
  lastRet,        \* its result: [bool, blocks]
  lastErr,        \* the error it threw
  tokenCancelled, \* token.isCancellationRequested
  kMaterial,      \* HyChainKeyObject.#keyMaterial, a BufferReader (format raw)
  gPc,            \* position of generateGenesisBlock
  gTx,            \* the transaction it was called with
  gUsable,        \* TRUE when the signers accept the key and JSON text can be made
  gFreshKey,      \* TRUE when the key object was never read before the call
  gSignKey,       \* the bytes returned by key.read()
  gBlock,         \* the block record under construction
  gPending,       \* the outcome of the call being awaited: [out, err]
  gErr,           \* the error the pipeline threw
  gBefore,        \* the two indexes as they were when the pipeline was called
  gPutCalls       \* how many times this run has invoked storage.putBlock

storageVars == <<blocksById, blocksBySeq, sDisposed, sListeners>>
clientVars == <<lastOp, lastArg, lastRet, lastErr>>
genesisVars == <<tokenCancelled, kMaterial, gPc, gTx, gUsable, gFreshKey, gSignKey, gBlock, gPending,
                 gErr,
                 gBefore, gPutCalls>>
chainVars == <<storageVars, clientVars, genesisVars>>

VARIABLES
  armorRun,  \* the armor run: its inputs, its position and what the calls returned
  life,      \* one disposable object, the latest call of a member of it and the outcome
  signRun,   \* one call of sign: its arguments, its position, the token and the outcome
  lockRun,   \* the registry of named locks, the mutexes made so far and the tasks
  treeRun,   \* the level loop of computeRoot or generateProof, pair task by pair task
  keyGen,    \* one call of generateSymmetricKey: its position, the token and the outcome
  sem,      \* one Semaphore, the tasks that use it and the order in which they called acquire
  lazy      \* one AsyncLazy, the invocations of its executor and the accesses of its value

vars == <<codecVars, merkleVars, chainVars, armorRun, life, signRun, lockRun, treeRun, keyGen, sem, lazy>>

notLazy == <<codecVars, merkleVars, chainVars, armorRun, life, signRun, lockRun, treeRun, keyGen, sem>>
notSem == <<codecVars, merkleVars, chainVars, armorRun, life, signRun, lockRun, treeRun, keyGen, lazy>>
notKeyGen == <<codecVars, merkleVars, chainVars, armorRun, life, signRun, lockRun, treeRun, sem, lazy>>
notCodec == <<merkleVars, chainVars, armorRun, life, signRun, lockRun, treeRun, keyGen, sem, lazy>>
notMerkle == <<codecVars, chainVars, armorRun, life, signRun, lockRun, treeRun, keyGen, sem, lazy>>
notChain == <<codecVars, merkleVars, armorRun, life, signRun, lockRun, treeRun, keyGen, sem, lazy>>
notArmor == <<codecVars, merkleVars, chainVars, life, signRun, lockRun, treeRun, keyGen, sem, lazy>>
notLife == <<codecVars, merkleVars, chainVars, armorRun, signRun, lockRun, treeRun, keyGen, sem, lazy>>
notLock == <<codecVars, merkleVars, chainVars, armorRun, life, signRun, treeRun, keyGen, sem, lazy>>
notTree == <<codecVars, merkleVars, chainVars, armorRun, life, signRun, lockRun, keyGen, sem, lazy>>
notSign == <<codecVars, merkleVars, chainVars, armorRun, life, lockRun, treeRun, keyGen, sem, lazy>>

(***************************************************************************)
(* 32-bit arithmetic on <<hi, lo>> pairs.                                  *)
(***************************************************************************)
Half == 65536

NumOf(i) == <<i \div Half, i % Half>>

Zero == <<0, 0>>

\* ToUint32: the 32-bit word of a number, as a pair with hi in 0..65535
ToUint32(v) == <<v[1] % Half, v[2]>>

\* ToInt32: the signed reading of a 32-bit word
ToInt32(w) == <<IF w[1] % Half >= 32768 THEN (w[1] % Half) - Half ELSE w[1] % Half, w[2]>>

\* v >>> 7
Shr7(v) ==
  LET w == ToUint32(v)
  IN  <<w[1] \div 128, (w[2] \div 128) + (w[1] % 128) * 512>>

\* v & 0b01111111
And7F(v) == v[2] % 128

RECURSIVE Pow2(_)
Pow2(k) == IF k = 0 THEN 1 ELSE 2 * Pow2(k - 1)

\* (b << n) for a 7-bit b; the shift count is taken modulo 32 and the
\* result is a 32-bit word
Shl(b, n) ==
  LET s == n % 32
  IN  IF s < 16
        THEN <<(b * Pow2(s)) \div Half, (b * Pow2(s)) % Half>>
        ELSE <<(b * Pow2(s - 16)) % Half, 0>>

RECURSIVE BitOr(_, _, _)
BitOr(a, b, k) ==
  IF k = 0 THEN 0
  ELSE (IF (a % 2 = 1) \/ (b % 2 = 1) THEN 1 ELSE 0)
         + 2 * BitOr(a \div 2, b \div 2, k - 1)

\* a | b on 32-bit words, read back as a signed number
Or32(a, b) ==
  LET x == ToUint32(a)
      y == ToUint32(b)
  IN  ToInt32(<<BitOr(x[1], y[1], 16), BitOr(x[2], y[2], 16)>>)

(***************************************************************************)
(* Byte sequences.                                                         *)
(***************************************************************************)
RECURSIVE Flatten(_)
Flatten(chunks) ==
  IF chunks = <<>> THEN <<>> ELSE Head(chunks) \o Flatten(Tail(chunks))

Slice(s, from, to) == [i \in 1..(to - from) |-> s[from + i]]

Min(a, b) == IF a < b THEN a ELSE b

(***************************************************************************)
(* BufferWriter                                                            *)
(***************************************************************************)
NewWriter == [buffers |-> <<>>, bytes |-> 0, disposed |-> FALSE]

\* write that puts the chunk before the ones already written
WriterWrite_unshift(w, chunk) ==
  [w EXCEPT !.buffers = <<chunk>> \o @, !.bytes = @ + Len(chunk)]

WriterWrite(w, chunk) ==
  [w EXCEPT !.buffers = Append(@, chunk), !.bytes = @ + Len(chunk)]

WriterDrain(w) == Flatten(w.buffers)

(***************************************************************************)
(* BufferReader.  A read returns [r, out, err].  released stands for the   *)
(* data reference having been dropped (set to null) by a read of the rest. *)
(***************************************************************************)
NoErr == "none"

NewReader(data) ==
  [data |-> data, total |-> Len(data), cursor |-> 0, disposed |-> FALSE, released |-> FALSE]

\* read() with the length omitted
ReaderReadAll(r) ==
  IF r.disposed
    THEN [r |-> r, out |-> <<>>, err |-> "ERR_RESOURCE_DISPOSED"]
  ELSE IF r.released
    THEN [r |-> r, out |-> <<>>, err |-> "TypeError"]
  ELSE IF r.cursor >= Len(r.data)
    THEN [r |-> r, out |-> <<>>, err |-> "ERR_END_OF_STREAM"]
  ELSE [r   |-> [r EXCEPT !.cursor = Len(r.data), !.released = TRUE],
        out |-> Slice(r.data, r.cursor, Len(r.data)),
        err |-> NoErr]

\* read(byteLength) with a number
ReaderRead(r, byteLength) ==
  IF r.disposed
    THEN [r |-> r, out |-> <<>>, err |-> "ERR_RESOURCE_DISPOSED"]
  ELSE IF r.released
    THEN [r |-> r, out |-> <<>>, err |-> "TypeError"]
  ELSE IF r.cursor >= Len(r.data)
    THEN [r |-> r, out |-> <<>>, err |-> "ERR_END_OF_STREAM"]
  ELSE IF byteLength < 0
    THEN [r |-> r, out |-> <<>>, err |-> "ERR_INVALID_ARGUMENT"]
  ELSE LET len == Min(byteLength, Len(r.data) - r.cursor)
       IN  [r   |-> [r EXCEPT !.cursor = @ + len],
            out |-> Slice(r.data, r.cursor, r.cursor + len),
            err |-> NoErr]

(***************************************************************************)
(* VQL integers                                                            *)
(***************************************************************************)
RECURSIVE readVQLLoop(_, _, _)
readVQLLoop(r, n, value) ==
  LET rd == ReaderRead(r, 1)
  IN  IF rd.err # NoErr
        THEN [r |-> rd.r, val |-> value, err |-> rd.err]
        ELSE LET next == rd.out[1]
                 v2   == Or32(value, Shl(next % 128, n))
             IN  IF next < 128
                   THEN [r |-> rd.r, val |-> v2, err |-> NoErr]
                   ELSE readVQLLoop(rd.r, n + 7, v2)

readIntVQL(r) == readVQLLoop(r, 0, Zero)

RECURSIVE vqlLen(_)
vqlLen(v2) == IF v2 = Zero THEN 0 ELSE 1 + vqlLen(Shr7(v2))

RECURSIVE vqlFill(_)
vqlFill(value) ==
  IF value = Zero THEN <<>>
  ELSE LET rest == Shr7(value)
           low  == And7F(value)
       IN  <<IF rest # Zero THEN low + 128 ELSE low>> \o vqlFill(rest)

vqlScratch(value) ==
  LET fill == vqlFill(value)
  IN  [i \in 1..vqlLen(value) |-> IF i <= Len(fill) THEN fill[i] ELSE 0]

writeInt32VQL(w, value) ==
  IF value = Zero THEN WriterWrite(w, <<0>>)
  ELSE WriterWrite(w, vqlScratch(value))

(***************************************************************************)
(* UTF-8, as Buffer.from(string) and Buffer.toString() compute it.  A      *)
(* string is a sequence of UTF-16 code units; the alphabet of the model    *)
(* has no low surrogate, so every surrogate in it is unpaired and is       *)
(* encoded as U+FFFD.                                                      *)
(***************************************************************************)
Replacement == 65533

IsSurrogate(u) == u >= 55296 /\ u <= 57343

utf8Unit(u) ==
  LET c == IF IsSurrogate(u) THEN Replacement ELSE u
  IN  IF c < 128 THEN <<c>>
      ELSE IF c < 2048 THEN <<192 + (c \div 64), 128 + (c % 64)>>
      ELSE <<224 + (c \div 4096), 128 + ((c \div 64) % 64), 128 + (c % 64)>>

RECURSIVE utf8Encode(_)
utf8Encode(str) ==
  IF str = <<>> THEN <<>> ELSE utf8Unit(Head(str)) \o utf8Encode(Tail(str))

IsCont(b) == b >= 128 /\ b < 192

RECURSIVE utf8Decode(_)
utf8Decode(bytes) ==
  IF bytes = <<>> THEN <<>>
  ELSE LET b == bytes[1]
           n == Len(bytes)
       IN  IF b < 128
             THEN <<b>> \o utf8Decode(Tail(bytes))
           ELSE IF b >= 194 /\ b < 224 /\ n >= 2 /\ IsCont(bytes[2])
             THEN <<(b - 192) * 64 + (bytes[2] - 128)>>
                    \o utf8Decode(SubSeq(bytes, 3, n))
           ELSE IF b >= 224 /\ b < 240 /\ n >= 3 /\ IsCont(bytes[2]) /\ IsCont(bytes[3])
                   /\ (b - 224) * 4096 + (bytes[2] - 128) * 64 >= 2048
                   /\ ~IsSurrogate((b - 224) * 4096 + (bytes[2] - 128) * 64 + (bytes[3] - 128))
             THEN <<(b - 224) * 4096 + (bytes[2] - 128) * 64 + (bytes[3] - 128)>>
                    \o utf8Decode(SubSeq(bytes, 4, n))
           ELSE <<Replacement>> \o utf8Decode(Tail(bytes))

(***************************************************************************)
(* Values of the codec: [t, s, a] with t the JavaScript type, s the code   *)
(* units of a string, the bytes of a buffer or the <<hi, lo>> pair of an   *)
(* integer, and a the elements of an array.                                *)
(***************************************************************************)
Val(t, s, a) == [t |-> t, s |-> s, a |-> a]

VNull == Val("null", <<>>, <<>>)
VUndefined == Val("undef", <<>>, <<>>)
VStr(str) == Val("str", str, <<>>)
VBuf(b) == Val("buf", b, <<>>)
VU8(b) == Val("u8", b, <<>>)
VInt(n) == Val("int", n, <<>>)
VArr(a) == Val("arr", <<>>, a)

NumToInt(v) == v[1] * Half + v[2]

\* SerializableDataType
TagNull == 0
TagString == 1
TagUint == 2
TagObject == 3
TagArray == 4
TagMarshallObject == 5
TagBuffer == 6

RECURSIVE serialize(_, _)
RECURSIVE serializeElements(_, _, _)
serializeElements(w, a, i) ==
  IF i > Len(a) THEN w ELSE serializeElements(serialize(w, a[i]), a, i + 1)

serialize(w, data) ==
  IF data.t \in {"null", "undef"}
    THEN WriterWrite(w, <<TagNull>>)
  ELSE IF data.t = "str"
    THEN LET buffer == utf8Encode(data.s)
         IN  WriterWrite(writeInt32VQL(WriterWrite(w, <<TagString>>), NumOf(Len(buffer))), buffer)
  ELSE IF data.t \in {"buf", "u8"}
    THEN WriterWrite(writeInt32VQL(WriterWrite(w, <<TagBuffer>>), NumOf(Len(data.s))), data.s)
  ELSE IF data.t = "int"
    THEN writeInt32VQL(WriterWrite(w, <<TagUint>>), data.s)
  ELSE \* data.t = "arr"
    serializeElements(writeInt32VQL(WriterWrite(w, <<TagArray>>), NumOf(Len(data.a))), data.a, 1)

Fail(r, e) == [r |-> r, val |-> VNull, err |-> e]

\* reader.read(readIntVQL(reader))
readSized(r) ==
  LET n == readIntVQL(r)
  IN  IF n.err # NoErr THEN [r |-> n.r, out |-> <<>>, err |-> n.err]
      ELSE ReaderRead(n.r, NumToInt(n.val))

RECURSIVE deserialize(_)
RECURSIVE deserializeElements(_, _, _, _)
deserializeElements(r, len, i, result) ==
  IF i >= len THEN [r |-> r, val |-> VArr(result), err |-> NoErr]
  ELSE LET e == deserialize(r)
       IN  IF e.err # NoErr THEN Fail(e.r, e.err)
           ELSE deserializeElements(e.r, len, i + 1, Append(result, e.val))

deserialize(r) ==
  LET tag == ReaderRead(r, 1)
  IN  IF tag.err # NoErr THEN Fail(tag.r, tag.err)
      ELSE LET dataType == tag.out[1]
           IN  IF dataType = TagNull
                 THEN [r |-> tag.r, val |-> VNull, err |-> NoErr]
               ELSE IF dataType = TagString
                 THEN LET b == readSized(tag.r)
                      IN  IF b.err # NoErr THEN Fail(b.r, b.err)
                          ELSE [r |-> b.r, val |-> VStr(utf8Decode(b.out)), err |-> NoErr]
               ELSE IF dataType = TagUint
                 THEN LET n == readIntVQL(tag.r)
                      IN  IF n.err # NoErr THEN Fail(n.r, n.err)
                          ELSE [r |-> n.r, val |-> VInt(n.val), err |-> NoErr]
               ELSE IF dataType = TagBuffer
                 THEN LET b == readSized(tag.r)
                      IN  IF b.err # NoErr THEN Fail(b.r, b.err)
                          ELSE [r |-> b.r, val |-> VBuf(b.out), err |-> NoErr]
               ELSE IF dataType = TagArray
                 THEN LET n == readIntVQL(tag.r)
                      IN  IF n.err # NoErr THEN Fail(n.r, n.err)
                          ELSE deserializeElements(n.r, NumToInt(n.val), 0, <<>>)
               ELSE Fail(tag.r, "ERR_UNSUPPORTED_OPERATION")

(***************************************************************************)
(* HashEntity: a BufferReader over the digest bytes.                       *)
(***************************************************************************)
NewHashEntity(source) == [content |-> NewReader(source), disposed |-> FALSE]

\* the buffer getter of BufferReader: a copy of the whole data
ReaderBuffer(r) ==
  IF r.disposed THEN [out |-> <<>>, err |-> "ERR_RESOURCE_DISPOSED"]
  ELSE IF r.released THEN [out |-> <<>>, err |-> "TypeError"]
  ELSE [out |-> r.data, err |-> NoErr]

\* HashEntity.buffer(): reads the rest of the content
HashEntityBuffer(h) ==
  IF h.disposed
    THEN [h |-> h, out |-> <<>>, err |-> "ERR_RESOURCE_DISPOSED"]
    ELSE LET rd == ReaderReadAll(h.content)
         IN  [h |-> [h EXCEPT !.content = rd.r], out |-> rd.out, err |-> rd.err]

\* HashEntity.equals(other) with other given as bytes
HashEntityEquals(h, other) ==
  IF h.disposed THEN [out |-> FALSE, err |-> "ERR_RESOURCE_DISPOSED"]
  ELSE LET o == ReaderBuffer(NewHashEntity(other).content)
           t == ReaderBuffer(h.content)
       IN  IF o.err # NoErr THEN [out |-> FALSE, err |-> o.err]
           ELSE IF t.err # NoErr THEN [out |-> FALSE, err |-> t.err]
           ELSE [out |-> (o.out = t.out), err |-> NoErr]

(***************************************************************************)
(* hashData without a key.  The digest is an ideal hash: the digest of a   *)
(* payload is the payload between two marks, so distinct payloads have     *)
(* distinct digests and no digest is a leaf of the model.                  *)
(***************************************************************************)
HashOpen == -1
HashClose == -2

hashData(payload) == <<HashOpen>> \o payload \o <<HashClose>>

(***************************************************************************)
(* MerkleTree                                                              *)
(***************************************************************************)
\* level.findByIndex(i + 1) ?? left, with i counted from 1
RightOf(level, i) == IF i + 1 <= Len(level) THEN level[i + 1] ELSE level[i]

\* one pass of the pairing loop: the hashes of the pairs, in pair order
NextLevel(level) ==
  [k \in 1..((Len(level) + 1) \div 2) |->
     hashData(level[2 * k - 1] \o RightOf(level, 2 * k - 1))]

RECURSIVE computeRootLoop(_)
computeRootLoop(level) ==
  IF Len(level) > 1 THEN computeRootLoop(NextLevel(level)) ELSE level

\* computeRoot with the pairing loop entered before its test
computeRoot_pairFirst(hashes) ==
  IF Len(hashes) < 1
    THEN NewHashEntity(hashData(<<>>))
    ELSE NewHashEntity(computeRootLoop(NextLevel(hashes))[1])

computeRoot(hashes) ==
  IF Len(hashes) < 1
    THEN NewHashEntity(hashData(<<>>))
    ELSE NewHashEntity(computeRootLoop(hashes)[1])

\* hashIndexMap.get(targetHex): the last i (from 0) whose hashed leaf is the
\* target, or -1 when the map has no such key
IndexOf(hashBuffers, targetBytes) ==
  LET hits == {i \in 1..Len(hashBuffers) : hashData(hashBuffers[i]) = targetBytes}
  IN  IF hits = {} THEN -1
      ELSE (CHOOSE i \in hits : \A j \in hits : j <= i) - 1

\* the combine tasks of one level, run in pair order; st = [next, proof, index]
RECURSIVE combineTasks(_, _, _)
combineTasks(level, i, st) ==
  IF i >= Len(level) THEN st
  ELSE LET left  == level[i + 1]
           right == RightOf(level, i + 1)
           next  == Append(st.next, hashData(left \o right))
       IN  combineTasks(level, i + 2,
             IF i = st.index \/ i + 1 = st.index
               THEN [next  |-> next,
                     proof |-> Append(st.proof,
                                NewHashEntity(IF i = st.index THEN right ELSE left)),
                     index |-> Len(next) - 1]
               ELSE [st EXCEPT !.next = next])

RECURSIVE generateProofLoop(_, _, _)
generateProofLoop(level, proof, index) ==
  IF Len(level) > 1
    THEN LET st == combineTasks(level, 0, [next |-> <<>>, proof |-> proof, index |-> index])
         IN  generateProofLoop(st.next, st.proof, st.index)
    ELSE proof

generateProof(hashes, target) ==
  LET t == HashEntityBuffer(NewHashEntity(target))
      index == IndexOf(hashes, t.out)
  IN  IF t.err # NoErr THEN [proof |-> <<>>, err |-> t.err]
      ELSE IF index < 0 THEN [proof |-> <<>>, err |-> "ERR_MISSING_OBJECT"]
      ELSE [proof |-> generateProofLoop(hashes, <<>>, index), err |-> NoErr]

\* the fold of verifyProof; returns [hash, proof, err]
RECURSIVE verifyFold(_, _, _)
verifyFold(hash, proof, i) ==
  IF i > Len(proof) THEN [hash |-> hash, proof |-> proof, err |-> NoErr]
  ELSE LET sibling == HashEntityBuffer(proof[i])
       IN  IF sibling.err # NoErr
             THEN [hash |-> hash, proof |-> proof, err |-> sibling.err]
             ELSE verifyFold(hashData(hash \o sibling.out),
                             [proof EXCEPT ![i] = sibling.h], i + 1)

\* verifyProof with target and root handed over as given
verifyProof(target, proof, root) ==
  LET f == verifyFold(target, proof, 1)
      e == HashEntityEquals(root, f.hash)
  IN  IF f.err # NoErr THEN [out |-> FALSE, proof |-> f.proof, err |-> f.err]
      ELSE [out |-> e.out, proof |-> f.proof, err |-> e.err]


(***************************************************************************)
(* Blocks.  An optional HashEntity is a sequence of at most one entity.    *)
(***************************************************************************)
Ids == 1..MaxId
Seqs == 0..MaxSeq

\* the _id read from a value that has no such property
UndefinedId == 0

\* "0".repeat(64) as bytes
GenesisHash == [i \in 1..64 |-> 48]

NoHeaders ==
  [version |-> 0, nonce |-> 0, contentLength |-> -1, merkleRoot |-> NewHashEntity(<<>>)]

MakeBlock(kind, id, pub, seq, headers, txs, csig, bsig) ==
  [kind |-> kind, _id |-> id, publicBlockId |-> pub, sequence |-> seq,
   previousHash |-> NewHashEntity(GenesisHash), headers |-> headers,
   transactions |-> txs, contentSignature |-> csig, blockSignature |-> bsig]

\* a record-shaped block as a client of the storage builds it
ClientBlock(id, seq) == MakeBlock("object", id, id, seq, NoHeaders, <<>>, <<>>, <<>>)

\* null, and a value that is not an object (a number, a string)
NullBlock == MakeBlock("null", UndefinedId, UndefinedId, 0, NoHeaders, <<>>, <<>>, <<>>)
PrimitiveBlock == MakeBlock("primitive", UndefinedId, UndefinedId, 0, NoHeaders, <<>>, <<>>, <<>>)

ClientBlocks == {ClientBlock(id, seq) : id \in Ids, seq \in Seqs}

PutInputs == ClientBlocks \cup {NullBlock, PrimitiveBlock}

(***************************************************************************)
(* AbstractStorageObject and InMemoryStorage                               *)
(***************************************************************************)
EmptyMap == <<>>

MapHas(m, k) == k \in DOMAIN m
MapSet(m, k, v) == [x \in (DOMAIN m) \cup {k} |-> IF x = k THEN v ELSE m[x]]
MapValues(m) == {m[k] : k \in DOMAIN m}

_validateBlock(source) ==
  IF source.kind # "object" THEN FALSE
  ELSE FALSE

\* putBlock with the two indexes written before the block is validated
putBlock_writeFirst(byId, bySeq, disposed, b) ==
  IF disposed
    THEN [byId |-> byId, bySeq |-> bySeq, ret |-> FALSE, err |-> "ERR_RESOURCE_DISPOSED"]
  ELSE IF b.kind = "null"
    THEN [byId |-> byId, bySeq |-> bySeq, ret |-> FALSE, err |-> "TypeError"]
  ELSE IF MapHas(byId, b._id)
    THEN [byId |-> byId, bySeq |-> bySeq, ret |-> FALSE, err |-> NoErr]
  ELSE [byId  |-> MapSet(byId, b._id, b),
        bySeq |-> MapSet(bySeq, b.sequence, b),
        ret   |-> _validateBlock(b),
        err   |-> NoErr]

\* putBlock: [byId, bySeq, ret, err]
putBlock(byId, bySeq, disposed, b) ==
  IF disposed
    THEN [byId |-> byId, bySeq |-> bySeq, ret |-> FALSE, err |-> "ERR_RESOURCE_DISPOSED"]
  ELSE IF b.kind = "null"
    THEN [byId |-> byId, bySeq |-> bySeq, ret |-> FALSE, err |-> "TypeError"]
  ELSE IF MapHas(byId, b._id)
    THEN [byId |-> byId, bySeq |-> bySeq, ret |-> FALSE, err |-> NoErr]
  ELSE IF ~_validateBlock(b)
    THEN [byId |-> byId, bySeq |-> bySeq, ret |-> FALSE, err |-> NoErr]
  ELSE [byId  |-> MapSet(byId, b._id, b),
        bySeq |-> MapSet(bySeq, b.sequence, b),
        ret   |-> TRUE,
        err   |-> NoErr]

\* the blocks of a map in ascending order of sequence
RECURSIVE SortBySequence(_)
SortBySequence(S) ==
  IF S = {} THEN <<>>
  ELSE LET b == CHOOSE x \in S : \A y \in S : x.sequence <= y.sequence
       IN  <<b>> \o SortBySequence(S \ {b})

getAllBlocks(bySeq) == SortBySequence(MapValues(bySeq))

Ret(bool, blocks) == [bool |-> bool, blocks |-> blocks]

NoRet == Ret(FALSE, <<>>)

Arg(b, id, seq) == [b |-> b, id |-> id, seq |-> seq]

NoArg == Arg(NullBlock, UndefinedId, 0)

(***************************************************************************)
(* consumeBuffer and sign for a byte-buffer source.  The signature is an   *)
(* ideal one: the payload between two marks, after the algorithm.          *)
(***************************************************************************)
SigOpen == -3
SigClose == -4

AlgEd25519 == 1
AlgEcdsaSha512 == 2
AlgUnknown == 0

Outcome(out, err) == [out |-> out, err |-> err]

consumeBuffer(source, cancelled) ==
  IF cancelled THEN Outcome(<<>>, "ERR_TOKEN_CANCELLED")
  ELSE Outcome(source, NoErr)

\* the body of sign after the payload has been consumed
signBody(algorithm, payload, keyAccepted, cancelled) ==
  IF algorithm \notin {AlgEd25519, AlgEcdsaSha512}
    THEN Outcome(<<>>, "ERR_INVALID_TYPE")
  ELSE IF ~keyAccepted
    THEN Outcome(<<>>, "CryptoError")
  ELSE IF cancelled
    THEN Outcome(<<>>, "ERR_TOKEN_CANCELLED")
  ELSE Outcome(<<SigOpen, algorithm>> \o payload \o <<SigClose>>, NoErr)

(***************************************************************************)
(* HyChainKeyObject.read() for a key held in raw format                    *)
(***************************************************************************)
KeyBytes == <<7, 7>>

keyRead(material) ==
  LET b == ReaderBuffer(material)
      rd == ReaderReadAll(material)
  IN  IF b.err # NoErr THEN [r |-> material, out |-> <<>>, err |-> b.err]
      ELSE rd

(***************************************************************************)
(* MerkleTree.createRoot over the JSON text of the payload                 *)
(***************************************************************************)
ChunkSize == 1024

\* the JSON text of a value, as opaque bytes
JsonText == <<123, 125>>

Chunks(data) ==
  IF Len(data) = 0 THEN <<data>>
  ELSE [k \in 1..((Len(data) + ChunkSize - 1) \div ChunkSize) |->
          Slice(data, (k - 1) * ChunkSize, Min(k * ChunkSize, Len(data)))]

createRoot(data) ==
  LET chunks == Chunks(data)
  IN  computeRoot([k \in 1..Len(chunks) |-> hashData(chunks[k])])


(***************************************************************************)
(* chunkToBuffer.  A chunk is [t, v]: a byte buffer, a string (its code    *)
(* units) or null / undefined.                                             *)
(***************************************************************************)
Chunk(t, v) == [t |-> t, v |-> v]

BufferChunk(bytes) == Chunk("buffer", bytes)
StringChunk(units) == Chunk("string", units)
NullChunk == Chunk("null", <<>>)

chunkToBuffer(chunk) ==
  IF chunk.t = "buffer" THEN Outcome(chunk.v, NoErr)
  ELSE IF chunk.t = "string" THEN Outcome(utf8Encode(chunk.v), NoErr)
  ELSE Outcome(<<>>, "ERR_INVALID_CHUNK")

(***************************************************************************)
(* Base64, as Buffer.toString("base64") and Buffer.from(s, "base64")       *)
(* compute it.  A base64 string is a sequence of ASCII codes.              *)
(***************************************************************************)
PadChar == 61

\* A-Z a-z 0-9 + /
Base64Char(i) ==
  IF i < 26 THEN 65 + i
  ELSE IF i < 52 THEN 97 + (i - 26)
  ELSE IF i < 62 THEN 48 + (i - 52)
  ELSE IF i = 62 THEN 43
  ELSE 47

\* the 6-bit value of a character, -1 when it is not of the alphabet
Base64Index(c) ==
  IF c >= 65 /\ c <= 90 THEN c - 65
  ELSE IF c >= 97 /\ c <= 122 THEN c - 97 + 26
  ELSE IF c >= 48 /\ c <= 57 THEN c - 48 + 52
  ELSE IF c = 43 THEN 62
  ELSE IF c = 47 THEN 63
  ELSE -1

RECURSIVE base64Encode(_)
base64Encode(bytes) ==
  IF Len(bytes) = 0 THEN <<>>
  ELSE IF Len(bytes) = 1
    THEN <<Base64Char(bytes[1] \div 4), Base64Char((bytes[1] % 4) * 16), PadChar, PadChar>>
  ELSE IF Len(bytes) = 2
    THEN <<Base64Char(bytes[1] \div 4),
           Base64Char((bytes[1] % 4) * 16 + (bytes[2] \div 16)),
           Base64Char((bytes[2] % 16) * 4), PadChar>>
  ELSE <<Base64Char(bytes[1] \div 4),
         Base64Char((bytes[1] % 4) * 16 + (bytes[2] \div 16)),
         Base64Char((bytes[2] % 16) * 4 + (bytes[3] \div 64)),
         Base64Char(bytes[3] % 64)>>
       \o base64Encode(Slice(bytes, 3, Len(bytes)))

\* the 6-bit values of the characters before the first '=', characters
\* outside the alphabet skipped
RECURSIVE base64Sextets(_)
base64Sextets(str) ==
  IF Len(str) = 0 \/ Head(str) = PadChar THEN <<>>
  ELSE IF Base64Index(Head(str)) < 0 THEN base64Sextets(Tail(str))
  ELSE <<Base64Index(Head(str))>> \o base64Sextets(Tail(str))

RECURSIVE base64Bytes(_)
base64Bytes(x) ==
  IF Len(x) < 2 THEN <<>>
  ELSE IF Len(x) = 2 THEN <<x[1] * 4 + (x[2] \div 16)>>
  ELSE IF Len(x) = 3
    THEN <<x[1] * 4 + (x[2] \div 16), (x[2] % 16) * 16 + (x[3] \div 4)>>
  ELSE <<x[1] * 4 + (x[2] \div 16), (x[2] % 16) * 16 + (x[3] \div 4),
         (x[3] % 4) * 64 + x[4]>>
       \o base64Bytes(Slice(x, 4, Len(x)))

base64Decode(str) == base64Bytes(base64Sextets(str))

\* the characters of str from position i on match
\* (?:[A-Za-z0-9+/]{2}==|[A-Za-z0-9+/]{3}=)?$ after whole groups of four
RECURSIVE base64Regex(_)
base64Regex(str) ==
  IF Len(str) = 0 THEN TRUE
  ELSE IF Len(str) < 4 THEN FALSE
  ELSE IF Len(str) = 4 /\ str[4] = PadChar
    THEN /\ Base64Index(str[1]) >= 0
         /\ Base64Index(str[2]) >= 0
         /\ (str[3] = PadChar \/ Base64Index(str[3]) >= 0)
  ELSE /\ \A i \in 1..4 : Base64Index(str[i]) >= 0
       /\ base64Regex(Slice(str, 4, Len(str)))

\* btoa(atob(str)) === str adds no string to the ones the first test
\* accepts: btoa only produces padded groups of four
isBase64(chunk) ==
  /\ chunk.t = "string"
  /\ chunk.v # <<>>
  /\ Len(chunk.v) % 4 = 0
  /\ base64Regex(chunk.v)

\* Buffer.isEncoding for the encodings of the model
isEncoding(encoding) == encoding \in {"base64"}

\* buffer.toString(encoding) when the encoding is one, the buffer otherwise
Encoded(bytes, encoding) ==
  IF encoding # "undefined" /\ isEncoding(encoding)
    THEN StringChunk(base64Encode(bytes))
    ELSE BufferChunk(bytes)

(***************************************************************************)
(* aes-128-cbc of node:crypto.  The cipher of the model pads as PKCS#7     *)
(* does and shifts every byte by an amount made from the key, the iv and   *)
(* the position; deciphering with another key or iv, or a text that was    *)
(* not produced by the cipher, ends in a padding that does not check or in *)
(* other bytes.                                                            *)
(***************************************************************************)
CipherBlock == 16

RECURSIVE SumSeq(_)
SumSeq(s) == IF s = <<>> THEN 0 ELSE Head(s) + SumSeq(Tail(s))

\* the shift of the byte at position i under a key and iv of sum keySum
KeyShift(keySum, i) == (keySum + 7 * i) % 256

KeySum(masterKey, iv) == SumSeq(masterKey) + 3 * SumSeq(iv)

Pkcs7Pad(plain) ==
  LET k == CipherBlock - (Len(plain) % CipherBlock)
  IN  plain \o [i \in 1..k |-> k]

\* cipher.update(source) followed by cipher.final()
cipherEncrypt(masterKey, iv, plain) ==
  LET padded == Pkcs7Pad(plain)
      keySum == KeySum(masterKey, iv)
  IN  [i \in 1..Len(padded) |-> (padded[i] + KeyShift(keySum, i)) % 256]

\* decipher.update(content) followed by decipher.final()
cipherDecrypt(masterKey, iv, content) ==
  IF Len(content) = 0 \/ Len(content) % CipherBlock # 0
    THEN Outcome(<<>>, "ERR_OSSL_WRONG_FINAL_BLOCK_LENGTH")
  ELSE LET keySum == KeySum(masterKey, iv)
           padded == [i \in 1..Len(content) |->
                        (content[i] + 256 - KeyShift(keySum, i)) % 256]
           k == padded[Len(padded)]
       IN  IF /\ k >= 1
              /\ k <= CipherBlock
              /\ \A i \in (Len(padded) - k + 1)..Len(padded) : padded[i] = k
             THEN Outcome(Slice(padded, 0, Len(padded) - k), NoErr)
             ELSE Outcome(<<>>, "ERR_OSSL_BAD_DECRYPT")

(***************************************************************************)
(* armor, dearmor and parseKey.  armor returns [out, err] with out a chunk *)
(* (a buffer, or a string when an encoding is given); dearmor returns      *)
(* [out, err] with out the bytes.                                          *)
(***************************************************************************)
ARMORED_CONTENT_MAGIC_BUFFER ==
  <<72, 89, 32, 67, 72, 65, 73, 78, 32, 65, 82, 77, 79, 82, 69, 68, 32, 75, 69, 89>>

ALGORITHM == [length |-> 16, ivLength |-> 16]

parseKey(key) ==
  LET buffer == chunkToBuffer(key)
  IN  IF buffer.err # NoErr
        THEN [masterKey |-> <<>>, iv |-> <<>>, err |-> buffer.err]
      ELSE IF ALGORITHM.length + ALGORITHM.ivLength > Len(buffer.out)
        THEN [masterKey |-> <<>>, iv |-> <<>>, err |-> "ERR_CRYPTO_KEY_SHORT"]
      ELSE [masterKey |-> Slice(buffer.out, 0, ALGORITHM.length),
            iv        |-> Slice(buffer.out, ALGORITHM.length,
                                ALGORITHM.length + ALGORITHM.ivLength),
            err       |-> NoErr]

NoChunk == BufferChunk(<<>>)

\* armor that writes the flag before the magic
armor_flagFirst(e, source, key, encoding) ==
  LET src == chunkToBuffer(source)
  IN  IF src.err # NoErr THEN Outcome(NoChunk, src.err)
      ELSE Outcome(Encoded(<<0>> \o ARMORED_CONTENT_MAGIC_BUFFER \o src.out, encoding), NoErr)

armor(e, source, key, encoding) ==
  LET head == ARMORED_CONTENT_MAGIC_BUFFER \o <<IF e THEN 1 ELSE 0>>
      src  == chunkToBuffer(source)
      pk   == parseKey(key)
  IN  IF ~e
        THEN IF src.err # NoErr THEN Outcome(NoChunk, src.err)
             ELSE Outcome(Encoded(head \o src.out, encoding), NoErr)
      ELSE IF pk.err # NoErr THEN Outcome(NoChunk, pk.err)
      ELSE IF src.err # NoErr THEN Outcome(NoChunk, src.err)
      ELSE Outcome(Encoded(head \o cipherEncrypt(pk.masterKey, pk.iv, src.out), encoding),
                   NoErr)

\* the bytes dearmor works on
dearmorBuffer(source, inputEncoding) ==
  IF source.t = "string"
    THEN IF inputEncoding # "undefined" /\ isEncoding(inputEncoding)
           THEN Outcome(base64Decode(source.v), NoErr)
         ELSE IF isBase64(source) THEN Outcome(base64Decode(source.v), NoErr)
         ELSE chunkToBuffer(source)
    ELSE chunkToBuffer(source)

\* dearmor that reads the flag before it compares the magic
dearmor_flagFirst(source, key, inputEncoding) ==
  LET b == dearmorBuffer(source, inputEncoding)
      magicLength == Len(ARMORED_CONTENT_MAGIC_BUFFER)
  IN  IF b.err # NoErr THEN Outcome(<<>>, b.err)
      ELSE IF Len(b.out) <= magicLength \/ b.out[magicLength + 1] \notin {0, 1}
        THEN Outcome(<<>>, "ERR_INVALID_BITFLAG")
      ELSE IF Slice(b.out, 0, magicLength) # ARMORED_CONTENT_MAGIC_BUFFER
        THEN Outcome(<<>>, "ERR_MAGIC_NUMBER_MISSMATCH")
      ELSE Outcome(Slice(b.out, magicLength + 1, Len(b.out)), NoErr)

\* dearmor with no output encoding
dearmor(source, key, inputEncoding) ==
  LET b == dearmorBuffer(source, inputEncoding)
      magicLength == Len(ARMORED_CONTENT_MAGIC_BUFFER)
  IN  IF b.err # NoErr THEN Outcome(<<>>, b.err)
      ELSE IF Slice(b.out, 0, Min(magicLength, Len(b.out))) # ARMORED_CONTENT_MAGIC_BUFFER
        THEN Outcome(<<>>, "ERR_MAGIC_NUMBER_MISSMATCH")
      ELSE LET content == Slice(b.out, Min(magicLength + 1, Len(b.out)), Len(b.out))
               hasFlag == Len(b.out) > magicLength
               pk == parseKey(key)
           IN  IF hasFlag /\ b.out[magicLength + 1] = 0
                 THEN Outcome(content, NoErr)
               ELSE IF hasFlag /\ b.out[magicLength + 1] = 1
                 THEN IF pk.err # NoErr THEN Outcome(<<>>, pk.err)
                      ELSE cipherDecrypt(pk.masterKey, pk.iv, content)
               ELSE Outcome(<<>>, "ERR_INVALID_BITFLAG")

(***************************************************************************)
(* The public members of the disposable classes.  A call returns           *)
(* [obj, out, err]: the object after the call, the value returned as       *)
(* [t, v], and the error thrown.                                           *)
(***************************************************************************)
Disposed == "ERR_RESOURCE_DISPOSED"

OutUndefined == [t |-> "undefined", v |-> <<>>]
OutNull == [t |-> "null", v |-> <<>>]
OutBytes(b) == [t |-> "buffer", v |-> b]
OutString(s) == [t |-> "string", v |-> s]
OutNum(n) == [t |-> "number", v |-> <<n>>]
OutBool(b) == [t |-> "boolean", v |-> <<IF b THEN 1 ELSE 0>>]

Call(obj, out, err) == [obj |-> obj, out |-> out, err |-> err]

\* BufferReader.#DisposeInstance
ReaderDispose(r) ==
  IF r.disposed THEN r
  ELSE [r EXCEPT !.released = TRUE, !.cursor = -1, !.total = -1, !.disposed = TRUE]

\* the members of BufferReader; n < 0 stands for read() without a length
ReaderMember(r, op, n) ==
  CASE op = "consumed" ->
         IF r.disposed THEN Call(r, OutUndefined, Disposed)
         ELSE Call(r, OutNum(r.cursor), NoErr)
    [] op = "remaining" ->
         IF r.disposed THEN Call(r, OutUndefined, Disposed)
         ELSE IF r.released THEN Call(r, OutUndefined, "TypeError")
         ELSE Call(r, OutNum(Len(r.data) - r.cursor), NoErr)
    [] op = "byteLength" ->
         IF r.disposed THEN Call(r, OutUndefined, Disposed)
         ELSE Call(r, OutNum(r.total), NoErr)
    [] op = "buffer" ->
         LET b == ReaderBuffer(r)
         IN  Call(r, IF b.err = NoErr THEN OutBytes(b.out) ELSE OutUndefined, b.err)
    [] op = "readable" ->
         IF r.disposed THEN Call(r, OutBool(FALSE), NoErr)
         ELSE IF r.released THEN Call(r, OutUndefined, "TypeError")
         ELSE Call(r, OutBool(r.cursor < Len(r.data)), NoErr)
    [] op = "read" ->
         LET rd == IF n < 0 THEN ReaderReadAll(r) ELSE ReaderRead(r, n)
         IN  Call(rd.r, IF rd.err = NoErr THEN OutBytes(rd.out) ELSE OutUndefined, rd.err)
    [] op = "dispose" -> Call(ReaderDispose(r), OutUndefined, NoErr)

ReaderMembers == {"consumed", "remaining", "byteLength", "buffer", "readable", "read", "dispose"}

\* BufferWriter.#DisposeInstance
WriterDispose(w) ==
  IF w.disposed THEN w
  ELSE [w EXCEPT !.buffers = <<>>, !.bytes = 0, !.disposed = TRUE]

\* the members of BufferWriter
WriterMember(w, op, data) ==
  CASE op = "buffer" ->
         IF w.disposed THEN Call(w, OutUndefined, Disposed)
         ELSE Call(w, OutBytes(Flatten(w.buffers)), NoErr)
    [] op = "byteLength" ->
         IF w.disposed THEN Call(w, OutUndefined, Disposed)
         ELSE Call(w, OutNum(w.bytes), NoErr)
    [] op = "write" ->
         IF w.disposed THEN Call(w, OutUndefined, Disposed)
         ELSE Call(WriterWrite(w, data), OutUndefined, NoErr)
    [] op = "drain" ->
         IF w.disposed THEN Call(w, OutUndefined, Disposed)
         ELSE Call(WriterDispose(w), OutBytes(WriterDrain(w)), NoErr)
    [] op = "dispose" -> Call(WriterDispose(w), OutUndefined, NoErr)

WriterMembers == {"buffer", "byteLength", "write", "drain", "dispose"}

\* the members of HashEntity; other is the bytes equals() is given
HashEntityMember(h, op, n, other) ==
  IF op = "dispose"
    THEN Call(IF h.disposed THEN h
              ELSE [h EXCEPT !.content = ReaderDispose(@), !.disposed = TRUE],
              OutUndefined, NoErr)
  ELSE IF h.disposed THEN Call(h, OutUndefined, Disposed)
  ELSE CASE op = "byteLength" -> Call(h, OutNum(h.content.total), NoErr)
         [] op = "equals" ->
              LET e == HashEntityEquals(h, other)
              IN  Call(h, IF e.err = NoErr THEN OutBool(e.out) ELSE OutUndefined, e.err)
         [] op = "digest" ->
              LET rd == ReaderReadAll(h.content)
              IN  Call([h EXCEPT !.content = rd.r],
                       IF rd.err = NoErr THEN OutString(base64Encode(rd.out)) ELSE OutUndefined,
                       rd.err)
         [] op \in {"bytes", "buffer"} ->
              LET rd == HashEntityBuffer(h)
              IN  Call(rd.h, IF rd.err = NoErr THEN OutBytes(rd.out) ELSE OutUndefined, rd.err)
         [] op = "arrayBuffer" ->
              \* an ArrayBuffer of byteLength bytes with what read() returns at its start
              LET rd == HashEntityBuffer(h)
              IN  Call(rd.h,
                       IF rd.err = NoErr
                         THEN OutBytes([i \in 1..h.content.total |->
                                          IF i <= Len(rd.out) THEN rd.out[i] ELSE 0])
                         ELSE OutUndefined,
                       rd.err)
         [] op = "read" ->
              LET rd == IF n < 0 THEN ReaderReadAll(h.content) ELSE ReaderRead(h.content, n)
              IN  Call([h EXCEPT !.content = rd.r],
                       IF rd.err = NoErr THEN OutBytes(rd.out) ELSE OutUndefined, rd.err)

HashEntityMembers ==
  {"byteLength", "equals", "digest", "bytes", "buffer", "arrayBuffer", "read", "dispose"}

(***************************************************************************)
(* HyChainKeyObject, for a key held in raw format (the format of every key *)
(* the generators make): [material, alg, armorKey, label, disposed].       *)
(***************************************************************************)
\* the bytes generateSymmetricKey asks for beyond master, iv and auth tag
KeyTail == 8

NewAlg(kind, length, ivLength, authTagLength) ==
  [kind |-> kind, length |-> length, ivLength |-> ivLength, authTagLength |-> authTagLength]

NewKey(source, alg, armorKey) ==
  [material |-> NewReader(source), alg |-> alg, armorKey |-> armorKey, label |-> 0,
   disposed |-> FALSE]

\* #DoSymmetricKeyGeneration with the random bytes given
generateSymmetricKey(length, ivLength, authTagLength, random, armorKey) ==
  NewKey(Slice(random, 0, length + ivLength + authTagLength + KeyTail),
         NewAlg("secret", length, ivLength, authTagLength), BufferChunk(armorKey))

\* buffer.subarray(from, to)
Subarray(buffer, from, to) ==
  LET f == Min(from, Len(buffer))
      t == Min(to, Len(buffer))
  IN  IF t <= f THEN <<>> ELSE Slice(buffer, f, t)

\* a region that stops at the end of the one before it
KeyRegion_short(k, offset, size) ==
  LET end == offset + size
      b == ReaderBuffer(k.material)
  IN  IF k.alg.kind # "secret" \/ size = 0 THEN Call(k, OutNull, NoErr)
      ELSE IF end > k.material.total THEN Call(k, OutNull, NoErr)
      ELSE IF b.err # NoErr THEN Call(k, OutUndefined, b.err)
      ELSE Call(k, OutBytes(Subarray(b.out, offset, end - 1)), NoErr)

\* iv() and authTag(): the region [offset, offset + size) of a secret key
KeyRegion(k, offset, size) ==
  LET end == offset + size
      b == ReaderBuffer(k.material)
  IN  IF k.alg.kind # "secret" \/ size = 0 THEN Call(k, OutNull, NoErr)
      ELSE IF end > k.material.total THEN Call(k, OutNull, NoErr)
      ELSE IF b.err # NoErr THEN Call(k, OutUndefined, b.err)
      ELSE Call(k, OutBytes(Subarray(b.out, offset, end)), NoErr)

\* the members of HyChainKeyObject; n < 0 stands for read() without a length
KeyMember(k, op, n, tag) ==
  LET buffer == ReaderBuffer(k.material)
      alg == k.alg
  IN
  IF op = "dispose"
    THEN Call(IF k.disposed THEN k
              ELSE [k EXCEPT !.material = ReaderDispose(@), !.disposed = TRUE],
              OutUndefined, NoErr)
  ELSE IF op = "armor"
    THEN IF buffer.err # NoErr THEN Call(k, OutUndefined, buffer.err)
         ELSE LET a == armor(TRUE, BufferChunk(buffer.out), k.armorKey, "undefined")
              IN  Call(k, IF a.err = NoErr THEN a.out ELSE OutUndefined, a.err)
  ELSE IF k.disposed THEN Call(k, OutUndefined, Disposed)
  ELSE CASE op \in {"getInfo", "getDetails"} -> Call(k, OutNum(k.label), NoErr)
         [] op = "setDetails" -> Call([k EXCEPT !.label = n], OutUndefined, NoErr)
         [] op = "read" ->
              IF buffer.err # NoErr THEN Call(k, OutUndefined, buffer.err)
              ELSE LET rd == IF n < 0 THEN ReaderReadAll(k.material)
                                      ELSE ReaderRead(k.material, n)
                   IN  Call([k EXCEPT !.material = rd.r],
                            IF rd.err = NoErr THEN OutBytes(rd.out) ELSE OutUndefined, rd.err)
         [] op = "master" ->
              IF buffer.err # NoErr THEN Call(k, OutUndefined, buffer.err)
              ELSE IF alg.kind = "secret"
                THEN Call(k, OutBytes(Subarray(buffer.out, 0, alg.length)), NoErr)
              ELSE Call(k, OutBytes(buffer.out), NoErr)
         [] op = "iv" -> KeyRegion(k, alg.length, alg.ivLength)
         [] op = "authTag" -> KeyRegion(k, alg.length + alg.ivLength, alg.authTagLength)
         [] op = "leftBuffer" ->
              LET requiredLength == alg.length + alg.ivLength + alg.authTagLength
              IN  IF alg.kind # "secret" THEN Call(k, OutNull, NoErr)
                  ELSE IF requiredLength > k.material.total THEN Call(k, OutNull, NoErr)
                  ELSE IF buffer.err # NoErr THEN Call(k, OutUndefined, buffer.err)
                  ELSE Call(k, OutBytes(Subarray(buffer.out, requiredLength, Len(buffer.out))),
                            NoErr)
         [] op = "collectAuthTag" ->
              LET leftIndex == alg.length + alg.ivLength
              IN  IF alg.kind # "secret"
                    THEN Call(k, OutUndefined, "ERR_UNSUPPORTED_OPERATION")
                  ELSE IF buffer.err # NoErr THEN Call(k, OutUndefined, buffer.err)
                  ELSE Call([k EXCEPT !.material =
                                NewReader(Subarray(buffer.out, 0, leftIndex) \o tag
                                            \o Subarray(buffer.out, leftIndex, Len(buffer.out)))],
                            OutUndefined, NoErr)

KeyMembers ==
  {"getInfo", "getDetails", "setDetails", "read", "armor", "master", "iv", "authTag",
   "collectAuthTag", "leftBuffer", "dispose"}

(***************************************************************************)
(* The storage with its dispose listeners: [byId, bySeq, disposed,         *)
(* listeners], the listeners in the order they were registered.  A         *)
(* listener is [id, throws]; the one the constructor of InMemoryStorage    *)
(* registers has id 0 and clears the two indexes.                          *)
(***************************************************************************)
Listener(id, throws) == [id |-> id, throws |-> throws]

ClearIndexes == Listener(0, FALSE)

NewStorage ==
  [byId |-> EmptyMap, bySeq |-> EmptyMap, disposed |-> FALSE, listeners |-> <<ClearIndexes>>]

\* Set.add: a callback already in the set is not added again
SetAdd(listeners, cb) ==
  IF \E i \in 1..Len(listeners) : listeners[i] = cb THEN listeners ELSE Append(listeners, cb)

\* the loop of dispose over the listeners: [st, runs], runs counting the
\* calls of each listener
RECURSIVE runListeners_untilThrow(_, _, _)
runListeners_untilThrow(st, listeners, runs) ==
  IF listeners = <<>> THEN [st |-> st, runs |-> runs]
  ELSE LET cb == Head(listeners)
           ran == [runs EXCEPT ![cb.id] = @ + 1]
           st2 == IF cb = ClearIndexes THEN [st EXCEPT !.byId = EmptyMap, !.bySeq = EmptyMap]
                  ELSE st
       IN  IF cb.throws THEN [st |-> st2, runs |-> ran]
           ELSE runListeners_untilThrow(st2, Tail(listeners), ran)

RECURSIVE runListeners(_, _, _)
runListeners(st, listeners, runs) ==
  IF listeners = <<>> THEN [st |-> st, runs |-> runs]
  ELSE LET cb == Head(listeners)
           ran == [runs EXCEPT ![cb.id] = @ + 1]
           st2 == IF cb = ClearIndexes THEN [st EXCEPT !.byId = EmptyMap, !.bySeq = EmptyMap]
                  ELSE st
       IN  runListeners(st2, Tail(listeners), ran)

\* AbstractStorageObject.dispose with the listeners called: [st, runs]
disposeStorage(st, runs) ==
  IF st.disposed THEN [st |-> st, runs |-> runs]
  ELSE LET done == runListeners(st, st.listeners, runs)
       IN  [st |-> [done.st EXCEPT !.listeners = <<>>, !.disposed = TRUE], runs |-> done.runs]

\* the members of InMemoryStorage but dispose
StorageMember(st, op, b, id, seq, cb) ==
  IF op = "onDispose"
    THEN Call(IF st.disposed THEN st ELSE [st EXCEPT !.listeners = SetAdd(@, cb)],
              OutUndefined, NoErr)
  ELSE IF op = "putBlock"
    THEN LET p == putBlock(st.byId, st.bySeq, st.disposed, b)
         IN  Call([st EXCEPT !.byId = p.byId, !.bySeq = p.bySeq],
                  IF p.err = NoErr THEN OutBool(p.ret) ELSE OutUndefined, p.err)
  ELSE IF st.disposed THEN Call(st, OutUndefined, Disposed)
  ELSE CASE op = "getBlock" ->
              Call(st, IF MapHas(st.byId, id) THEN OutNum(id) ELSE OutNull, NoErr)
         [] op = "hasBlock" -> Call(st, OutBool(MapHas(st.byId, id)), NoErr)
         [] op = "getBlockBySequence" ->
              Call(st, IF MapHas(st.bySeq, seq) THEN OutNum(st.bySeq[seq]._id) ELSE OutNull, NoErr)
         [] op = "getLatestBlock" ->
              IF DOMAIN st.bySeq = {} THEN Call(st, OutNull, NoErr)
              ELSE LET maxSeq == CHOOSE s \in DOMAIN st.bySeq : \A x \in DOMAIN st.bySeq : x <= s
                   IN  Call(st, OutNum(st.bySeq[maxSeq]._id), NoErr)
         [] op = "getAllBlocks" ->
              LET all == getAllBlocks(st.bySeq)
              IN  Call(st, [t |-> "array", v |-> [i \in 1..Len(all) |-> all[i]._id]], NoErr)

StorageMembers ==
  {"putBlock", "getBlock", "hasBlock", "getBlockBySequence", "getLatestBlock", "getAllBlocks",
   "onDispose"}

(***************************************************************************)
(* consumeBuffer over every kind of source: a byte buffer, a pull source   *)
(* (isReadable), an IReader, a push stream (isReadableStream), and a value *)
(* that is none of them.  A source is [kind, data].                        *)
(***************************************************************************)
Source(kind, data) == [kind |-> kind, data |-> data]

\* while(source.readable) writer.write(chunkToBuffer(source.read()))
RECURSIVE consumeReaderLoop(_, _)
consumeReaderLoop(r, acc) ==
  LET readable == ReaderMember(r, "readable", 0)
      rd == ReaderMember(r, "read", -1)
  IN  IF readable.err # NoErr THEN Outcome(<<>>, readable.err)
      ELSE IF readable.out = OutBool(FALSE) THEN Outcome(acc, NoErr)
      ELSE IF rd.err # NoErr THEN Outcome(<<>>, rd.err)
      ELSE consumeReaderLoop(rd.obj, acc \o rd.out.v)

\* what consumeBuffer does with a source that is not a stream, after its
\* first look at the token
consumeRead(source) ==
  IF source.kind = "buffer" THEN Outcome(source.data, NoErr)
  ELSE IF source.kind = "pull" THEN Outcome(source.data, NoErr)
  ELSE IF source.kind = "reader"
    THEN IF ReaderMember(NewReader(source.data), "readable", 0).out = OutBool(FALSE)
           THEN Outcome(<<>>, "ERR_STREAM_CLOSED")
           ELSE consumeReaderLoop(NewReader(source.data), <<>>)
  ELSE Outcome(<<>>, "ERR_INVALID_CHUNK")

\* consumeBuffer that looks at the token only after it has read the source
consumeSource_lateCheck(source, cancelled) ==
  IF consumeRead(source).err # NoErr THEN consumeRead(source)
  ELSE IF cancelled THEN Outcome(<<>>, "ERR_TOKEN_CANCELLED")
  ELSE consumeRead(source)

\* consumeBuffer for a source that is not a stream
consumeSource(source, cancelled) ==
  IF cancelled THEN Outcome(<<>>, "ERR_TOKEN_CANCELLED")
  ELSE IF source.kind = "buffer" THEN consumeBuffer(source.data, cancelled)
  ELSE consumeRead(source)

(***************************************************************************)
(* Inputs of the codec run.                                                *)
(***************************************************************************)
SeqUpTo(S, n) == UNION {[1..k -> S] : k \in 0..n}

\* 'x', e-acute and an unpaired high surrogate
Alphabet == {120, 233, 55296}

ByteSamples == {0, 255}

MaxInt32 == <<32767, 65535>>
MinInt32 == <<-32768, 0>>

\* integers with (v | 0) === v
IntSamples ==
  {NumOf(0), NumOf(1), NumOf(127), NumOf(128), NumOf(16384), NumOf(-1), NumOf(-128),
   MaxInt32, MinInt32}

\* integers n with 0 <= n < 2^32
VqlInputs ==
  {NumOf(i) : i \in 0..MaxSmallInt}
    \cup {NumOf(16383), NumOf(16384), NumOf(2097151), NumOf(2097152),
          NumOf(268435455), NumOf(268435456), MaxInt32, <<32768, 0>>, <<65535, 65535>>}

Scalars ==
  {VNull, VUndefined}
    \cup {VStr(x) : x \in SeqUpTo(Alphabet, MaxStrLen)}
    \cup {VBuf(b) : b \in SeqUpTo(ByteSamples, MaxBufLen)}
    \cup {VU8(b) : b \in SeqUpTo(ByteSamples, MaxBufLen)}
    \cup {VInt(n) : n \in IntSamples}

Elements == Scalars \cup {VArr(<<>>), VArr(<<VStr(<<>>)>>)}

CodecInputs == Scalars \cup {VArr(a) : a \in SeqUpTo(Elements, MaxArrLen)}

\* what a value reads back as: undefined as null, Uint8Array as Buffer
RECURSIVE Narrow(_)
Narrow(v) ==
  IF v.t = "undef" THEN VNull
  ELSE IF v.t = "u8" THEN VBuf(v.s)
  ELSE IF v.t = "arr" THEN VArr([i \in 1..Len(v.a) |-> Narrow(v.a[i])])
  ELSE v

(***************************************************************************)
(* Semaphore, Mutex and NamedLock.  A semaphore is [value, queue]; the     *)
(* queue holds the tasks that wait, each with weight 1 as Mutex asks.      *)
(* The registry is glocks: name -> index of its mutex in the sequence of   *)
(* the mutexes made so far, 0 for a name that has none.                    *)
(***************************************************************************)
Names == {"a", "b"}
Tasks == 1..MaxTasks
Priorities == {0, 1}

NewSemaphore == [value |-> 1, queue |-> <<>>]

IdleTask ==
  [pc |-> "idle", name |-> "", mutex |-> 0, priority |-> 0, timed |-> FALSE, calls |-> 0,
   err |-> NoErr]

NoLocks ==
  [glocks |-> [n \in Names |-> 0], mutexes |-> <<>>, tasks |-> [t \in Tasks |-> IdleTask]]

\* Array.prototype.splice(start, 0, item)
SpliceIn(queue, start, item) ==
  LET from == IF start < 0 THEN (IF Len(queue) + start < 0 THEN 0 ELSE Len(queue) + start)
              ELSE IF start > Len(queue) THEN Len(queue) ELSE start
  IN  SubSeq(queue, 1, from) \o <<item>> \o SubSeq(queue, from + 1, Len(queue))

\* Array.prototype.splice(index, 1)
SpliceOut(queue, index) ==
  SubSeq(queue, 1, index) \o SubSeq(queue, index + 2, Len(queue))

\* Array.prototype.findIndex, -1 when no element satisfies the test
FindIndex(queue, Test(_)) ==
  IF \E i \in 1..Len(queue) : Test(queue[i])
    THEN (CHOOSE i \in 1..Len(queue) :
            Test(queue[i]) /\ \A j \in 1..(i - 1) : ~Test(queue[j])) - 1
    ELSE -1

\* the queue after acquire has put task t in it
Enqueue(queue, tasks, t, priority) ==
  LET Lower(q) == tasks[q].priority < priority
      index == FindIndex(queue, Lower)
  IN  IF index >= 0 THEN Append(queue, t) ELSE SpliceIn(queue, index, t)

\* _flushQueue: [value, queue, resolved]
RECURSIVE flushQueue(_, _, _, _)
flushQueue(value, queue, i, resolved) ==
  IF i >= Len(queue) THEN [value |-> value, queue |-> queue, resolved |-> resolved]
  ELSE IF 1 <= value
    THEN flushQueue(value - 1, SpliceOut(queue, i), i, resolved \cup {queue[i + 1]})
    ELSE flushQueue(value, queue, i + 1, resolved)

\* Semaphore.release(1)
semRelease(s) == flushQueue(s.value + 1, s.queue, 0, {})

\* NamedLock.getLock
getLock(l, name) ==
  IF l.glocks[name] # 0 THEN l
  ELSE [l EXCEPT !.mutexes = Append(l.mutexes, NewSemaphore),
                 !.glocks[name] = Len(l.mutexes) + 1]

\* Mutex.cancel: every task in the queue is rejected and the queue emptied
cancel(l, m) ==
  [l EXCEPT
     !.mutexes[m].queue = <<>>,
     !.tasks = [t \in Tasks |->
                  IF \E i \in 1..Len(l.mutexes[m].queue) : l.mutexes[m].queue[i] = t
                    THEN [IdleTask EXCEPT !.err = "Semaphore cancelled"]
                    ELSE l.tasks[t]]]

\* NamedLock.releaseLock
releaseLock(l, name) ==
  IF l.glocks[name] # 0
    THEN [cancel(l, l.glocks[name]) EXCEPT !.glocks[name] = 0]
    ELSE l

\* NamedLock.clear, the mutexes taken in any order
RECURSIVE clearLocks(_, _)
clearLocks(l, names) ==
  IF names = {} THEN l
  ELSE LET n == CHOOSE x \in names : TRUE
       IN  clearLocks(releaseLock(l, n), names \ {n})

(***************************************************************************)
(* The microtask queue of the runtime.  hashData without a key hashes at   *)
(* once and returns a resolved promise, so `await hashData(...)` puts the  *)
(* rest of a pair task in this queue; the queue is served first in, first  *)
(* out, once the code that started the tasks has reached its own await.    *)
(***************************************************************************)
\* the queue served last in, first out
dequeue_last(micro) ==
  [task |-> micro[Len(micro)], rest |-> SubSeq(micro, 1, Len(micro) - 1)]

dequeue(micro) == [task |-> Head(micro), rest |-> Tail(micro)]

LeafOf(j) == <<j>>

\* the record of a tree run before the call
TreeOff ==
  [pc |-> "off", fn |-> "computeRoot", level |-> <<>>, lvl |-> 0, i |-> 0,
   hashTasks |-> <<>>, values |-> <<>>, micro |-> <<>>, next |-> <<>>, proof |-> <<>>,
   index |-> 0, prev |-> <<>>, anc |-> 0, started |-> {}, completed |-> {}, placed |-> {}]

\* the record of a key generation before the call
KeyGenOff ==
  [pc |-> "off", length |-> 0, ivLength |-> 0, authTagLength |-> 0, entropy |-> FALSE,
   cancelled |-> FALSE, buffer |-> <<>>, key |-> <<>>, err |-> NoErr]

(***************************************************************************)
(* A Semaphore of any capacity with weighted tasks: [capacity, value,      *)
(* queue, tasks, arrivals].  A task is [pc, weight, priority, timed,       *)
(* calls]: calls counts the calls of the releaser it was given.  arrivals  *)
(* is the tasks that wait, in the order in which they called acquire.      *)
(***************************************************************************)
SemTask(pc, weight, priority, timed) ==
  [pc |-> pc, weight |-> weight, priority |-> priority, timed |-> timed, calls |-> 0]

\* new Semaphore(iv)
NewSem(iv) ==
  [capacity |-> IF iv >= 1 THEN iv ELSE 1, value |-> IF iv >= 1 THEN iv ELSE 1,
   queue |-> <<>>, arrivals |-> <<>>, tasks |-> [t \in Tasks |-> SemTask("idle", 0, 0, FALSE)]]

SemOff == [NewSem(0) EXCEPT !.capacity = 0, !.value = 0]

\* the queue or the arrivals without task t
Without(queue, t) == SelectSeq(queue, LAMBDA q : q # t)

\* Semaphore.tryLock(weight): does the weight fit
tryLock(value, weight) == weight <= value

\* _flushQueue over weighted tasks: [value, queue, resolved]
RECURSIVE _flushQueue(_, _, _, _, _)
_flushQueue(value, queue, tasks, i, resolved) ==
  IF i >= Len(queue) THEN [value |-> value, queue |-> queue, resolved |-> resolved]
  ELSE IF tasks[queue[i + 1]].weight <= value
    THEN _flushQueue(value - tasks[queue[i + 1]].weight, SpliceOut(queue, i), tasks, i,
                     resolved \cup {queue[i + 1]})
    ELSE _flushQueue(value, queue, tasks, i + 1, resolved)

\* a releaser that gives its weight back at every call
_createReleaser_unguarded(calls) == TRUE

\* the releaser made by _createReleaser: does this call reach release(weight)
_createReleaser(calls) == calls = 0

\* Semaphore.release(weight) followed by what the granted tasks become
release(s, weight) ==
  LET flushed == _flushQueue(s.value + weight, s.queue, s.tasks, 0, {})
  IN  [s EXCEPT
         !.value = flushed.value,
         !.queue = flushed.queue,
         !.arrivals = SelectSeq(s.arrivals, LAMBDA q : q \notin flushed.resolved),
         !.tasks = [q \in Tasks |->
                      IF q \in flushed.resolved
                        THEN SemTask("holding", s.tasks[q].weight, 0, FALSE)
                        ELSE s.tasks[q]]]

\* Semaphore.cancelPending
cancelPending(s) ==
  [s EXCEPT
     !.queue = <<>>,
     !.arrivals = <<>>,
     !.tasks = [q \in Tasks |->
                  IF s.tasks[q].pc = "waiting" THEN SemTask("cancelled", 0, 0, FALSE)
                  ELSE s.tasks[q]]]

(***************************************************************************)
(* AsyncLazy: [_didRun, _err, _value, runs, accesses].  runs counts the    *)
(* invocations of the executor; an access of `value` is [pc, out, err].    *)
(* The executor is the caller's: its k-th invocation settles with the      *)
(* value k or with an error.                                               *)
(***************************************************************************)
Accesses == 1..MaxAccesses

NoAccess == [pc |-> "none", out |-> 0, err |-> NoErr]

NewAsyncLazy ==
  [_didRun |-> FALSE, _err |-> NoErr, _value |-> 0, runs |-> 0,
   accesses |-> [a \in Accesses |-> NoAccess]]

LazyOff == [NewAsyncLazy EXCEPT !.runs = -1]

\* get value(): the body of the promise it returns; out of an access that
\* executes is the number of its invocation of the executor
valueGetter(l, a) ==
  IF ~l._didRun
    THEN [l EXCEPT !.runs = l.runs + 1,
                   !.accesses[a].pc = "executing",
                   !.accesses[a].out = l.runs + 1]
  ELSE IF l._err # NoErr
    THEN [l EXCEPT !.accesses[a] = [pc |-> "rejected", out |-> 0, err |-> l._err]]
  ELSE [l EXCEPT !.accesses[a] = [pc |-> "resolved", out |-> l._value, err |-> NoErr]]

\* the record of a sign run before the call
SignOff ==
  [pc |-> "off", algorithm |-> AlgUnknown, source |-> Source("buffer", <<>>), pre |-> FALSE,
   cancelled |-> FALSE, payload |-> Outcome(<<>>, NoErr), out |-> Outcome(<<>>, NoErr),
   signed |-> FALSE, entity |-> FALSE]

\* the record of a life before any call
NoRuns == [id \in 0..3 |-> 0]

NewLife(kind, obj) ==
  [kind |-> kind, obj |-> obj, prev |-> obj, op |-> "none", n |-> 0, out |-> OutUndefined,
   err |-> NoErr, registered |-> <<>>, runs |-> NoRuns, written |-> <<>>, given |-> <<>>,
   usedRead |-> FALSE]

LifeOff == NewLife("off", NewWriter)

(***************************************************************************)
(* The armor run: armor a source, then dearmor the envelope, or dearmor    *)
(* bytes that come from elsewhere.                                         *)
(***************************************************************************)
Bytes(n, b) == [i \in 1..n |-> b]

\* the key of wraps.spec.ts: a master key of 16 bytes 0x01, an iv of 16 bytes 0x02
TEST_KEY == Bytes(16, 1) \o Bytes(16, 2)

ArmorKeys ==
  {NullChunk, BufferChunk(<<>>), BufferChunk(Bytes(10, 0)), BufferChunk(Bytes(31, 1)),
   BufferChunk(TEST_KEY), BufferChunk(TEST_KEY \o Bytes(8, 9)),
   BufferChunk(Bytes(16, 3) \o Bytes(16, 2))}

ArmorSources ==
  SeqUpTo(ByteSamples, MaxBufLen) \cup {Bytes(15, 65), Bytes(16, 66), [i \in 1..17 |-> 15 * i]}

Encodings == {"undefined", "base64", "bogus"}

\* heads that are the magic, a part of it, or the magic with one byte changed
HeaderHeads ==
  {Slice(ARMORED_CONTENT_MAGIC_BUFFER, 0, n) : n \in {0, 1, 12, 19, 20}}
    \cup {[ARMORED_CONTENT_MAGIC_BUFFER EXCEPT ![i] = 0] : i \in {1, 20}}

HeaderTails ==
  {<<>>} \cup {<<f>> \o c : f \in {0, 1, 2, 99, 255},
                            c \in {<<>>, <<5>>, cipherEncrypt(Bytes(16, 1), Bytes(16, 2), <<5>>)}}

HeaderInputs == {h \o t : h \in HeaderHeads, t \in HeaderTails}

ArmorOff ==
  [pc |-> "off", e |-> FALSE, src |-> <<>>, key |-> NullChunk, enc |-> "undefined",
   armored |-> Outcome(NoChunk, NoErr), input |-> NoChunk, deKey |-> NullChunk,
   inEnc |-> "undefined", out |-> Outcome(<<>>, NoErr)]

\* a run starts with the inputs of armor, or with nothing when dearmor is
\* to be given bytes that armor did not make
ArmorStarts ==
  {[ArmorOff EXCEPT !.pc = "start", !.e = e, !.src = s, !.key = k, !.enc = enc] :
     e \in BOOLEAN, s \in ArmorSources, k \in ArmorKeys, enc \in Encodings}
    \cup {[ArmorOff EXCEPT !.pc = "bytes"]}

ArmorInit ==
  /\ armorRun \in ArmorStarts
  \* the codec is not run
  /\ cKind = "off"
  /\ cIn = VNull
  /\ cPc = "off"
  /\ cWriter = NewWriter
  /\ cReader = NewReader(<<>>)
  /\ cOut = VNull
  /\ cErr = NoErr
  \* the Merkle engine is not run
  /\ mLeaves = <<>>
  /\ mIndex = 0
  /\ mHashed = FALSE
  /\ mPc = "off"
  /\ mRoot = NewHashEntity(<<>>)
  /\ mProof = <<>>
  /\ mErr = NoErr
  /\ mTampered = FALSE
  /\ mVerified = FALSE
  \* the storage is new and the pipeline not called
  /\ blocksById = EmptyMap
  /\ blocksBySeq = EmptyMap
  /\ sDisposed = FALSE
  /\ sListeners = {"clearIndexes"}
  /\ lastOp = "none"
  /\ lastArg = NoArg
  /\ lastRet = NoRet
  /\ lastErr = NoErr
  /\ tokenCancelled = FALSE
  /\ kMaterial = NewReader(KeyBytes)
  /\ gPc = "idle"
  /\ gTx = [payload |-> VNull, sequence |-> 0]
  /\ gUsable = TRUE
  /\ gFreshKey = TRUE
  /\ gSignKey = <<>>
  /\ gBlock = NullBlock
  /\ gPending = Outcome(<<>>, NoErr)
  /\ gErr = NoErr
  /\ gBefore = <<EmptyMap, EmptyMap>>
  /\ gPutCalls = 0
  /\ life = LifeOff
  /\ signRun = SignOff
  /\ lockRun = NoLocks
  /\ treeRun = TreeOff
  /\ keyGen = KeyGenOff
  /\ sem = SemOff
  /\ lazy = LazyOff

ArmorCall ==
  /\ armorRun.pc = "start"
  /\ armorRun' = [armorRun EXCEPT
                    !.pc = "armored",
                    !.armored = armor(armorRun.e, BufferChunk(armorRun.src), armorRun.key,
                                      armorRun.enc)]
  /\ UNCHANGED notArmor

\* dearmor of the envelope armor returned
DearmorArmored ==
  /\ armorRun.pc = "armored"
  /\ armorRun.armored.err = NoErr
  /\ \E k \in ArmorKeys, inEnc \in Encodings :
       armorRun' = [armorRun EXCEPT
                      !.pc = "dearmored",
                      !.input = armorRun.armored.out,
                      !.deKey = k,
                      !.inEnc = inEnc,
                      !.out = dearmor(armorRun.armored.out, k, inEnc)]
  /\ UNCHANGED notArmor

\* dearmor of bytes that armor did not make
DearmorBytes ==
  /\ armorRun.pc = "bytes"
  /\ \E b \in HeaderInputs, k \in ArmorKeys :
       armorRun' = [armorRun EXCEPT
                      !.pc = "checked",
                      !.input = BufferChunk(b),
                      !.deKey = k,
                      !.out = dearmor(BufferChunk(b), k, "undefined")]
  /\ UNCHANGED notArmor

ArmorNext ==
  \/ ArmorCall
  \/ DearmorArmored
  \/ DearmorBytes

(***************************************************************************)
(* The life of one disposable object: any sequence of calls of its public  *)
(* members.  life holds the class, the object, the object as it was before *)
(* the latest call, that call and its outcome, the dispose listeners ever  *)
(* registered (in order) and how many times each one ran.                  *)
(***************************************************************************)
LifeData == {<<>>, <<11, 12, 13, 14, 15, 16, 17>>}

LifeLengths == {-1, 0, 1, 5, 9}

LifeChunks == {<<>>, <<21>>, <<11, 12, 13, 14, 15, 16, 17>>}

KeyRandom == [i \in 1..16 |-> 100 + i]

KeyArmorKey == Bytes(40, 4)

LifeKeys ==
  {generateSymmetricKey(l, iv, tag, KeyRandom, KeyArmorKey) :
     l \in 0..MaxKeyPart, iv \in 0..MaxKeyPart, tag \in 0..MaxKeyPart}
    \cup {NewKey(<<31, 32, 33>>, NewAlg("private", 32, 0, 0), BufferChunk(KeyArmorKey))}

Callbacks == {Listener(1, FALSE), Listener(2, TRUE), Listener(3, FALSE)}

LifeStarts ==
  {NewLife("BufferReader", NewReader(d)) : d \in LifeData}
    \cup {NewLife("BufferWriter", NewWriter)}
    \cup {[NewLife("HashEntity", NewHashEntity(d)) EXCEPT !.given = d] : d \in LifeData}
    \cup {NewLife("HyChainKeyObject", k) : k \in LifeKeys}
    \cup {[NewLife("InMemoryStorage", NewStorage) EXCEPT !.registered = <<ClearIndexes>>]}

\* the state after a call of member op with number n that returned c
Called2(op, n, c) ==
  life' = [life EXCEPT !.prev = life.obj, !.obj = c.obj, !.op = op, !.n = n,
                       !.out = c.out, !.err = c.err]

LifeInit ==
  /\ life \in LifeStarts
  /\ armorRun = ArmorOff
  \* the codec is not run
  /\ cKind = "off"
  /\ cIn = VNull
  /\ cPc = "off"
  /\ cWriter = NewWriter
  /\ cReader = NewReader(<<>>)
  /\ cOut = VNull
  /\ cErr = NoErr
  \* the Merkle engine is not run
  /\ mLeaves = <<>>
  /\ mIndex = 0
  /\ mHashed = FALSE
  /\ mPc = "off"
  /\ mRoot = NewHashEntity(<<>>)
  /\ mProof = <<>>
  /\ mErr = NoErr
  /\ mTampered = FALSE
  /\ mVerified = FALSE
  \* the storage is new and the pipeline not called
  /\ blocksById = EmptyMap
  /\ blocksBySeq = EmptyMap
  /\ sDisposed = FALSE
  /\ sListeners = {"clearIndexes"}
  /\ lastOp = "none"
  /\ lastArg = NoArg
  /\ lastRet = NoRet
  /\ lastErr = NoErr
  /\ tokenCancelled = FALSE
  /\ kMaterial = NewReader(KeyBytes)
  /\ gPc = "idle"
  /\ gTx = [payload |-> VNull, sequence |-> 0]
  /\ gUsable = TRUE
  /\ gFreshKey = TRUE
  /\ gSignKey = <<>>
  /\ gBlock = NullBlock
  /\ gPending = Outcome(<<>>, NoErr)
  /\ gErr = NoErr
  /\ gBefore = <<EmptyMap, EmptyMap>>
  /\ gPutCalls = 0
  /\ signRun = SignOff
  /\ lockRun = NoLocks
  /\ treeRun = TreeOff
  /\ keyGen = KeyGenOff
  /\ sem = SemOff
  /\ lazy = LazyOff

LifeReader ==
  /\ life.kind = "BufferReader"
  /\ \E op \in ReaderMembers, n \in LifeLengths :
       /\ op # "read" => n = 0
       /\ Called2(op, n, ReaderMember(life.obj, op, n))
  /\ UNCHANGED notLife

LifeWriter ==
  /\ life.kind = "BufferWriter"
  /\ \E op \in WriterMembers, data \in LifeChunks :
       /\ op # "write" => data = <<>>
       /\ (op = "write" /\ ~life.obj.disposed) => Len(life.obj.buffers) < MaxWrites
       /\ LET c == WriterMember(life.obj, op, data)
          IN  life' = [life EXCEPT
                         !.prev = life.obj, !.obj = c.obj, !.op = op, !.n = Len(data),
                         !.out = c.out, !.err = c.err,
                         !.written = IF op = "write" /\ ~life.obj.disposed
                                       THEN @ \o data ELSE @]
  /\ UNCHANGED notLife

LifeHashEntity ==
  /\ life.kind = "HashEntity"
  /\ \E op \in HashEntityMembers, n \in LifeLengths, other \in LifeChunks :
       /\ op # "read" => n = 0
       /\ op # "equals" => other = <<>>
       /\ LET c == HashEntityMember(life.obj, op, n, other)
          IN  life' = [life EXCEPT
                         !.prev = life.obj, !.obj = c.obj, !.op = op, !.n = n,
                         !.out = c.out, !.err = c.err,
                         !.written = other,
                         !.usedRead = @ \/ op = "read"]
  /\ UNCHANGED notLife

LifeKey ==
  /\ life.kind = "HyChainKeyObject"
  /\ \E op \in KeyMembers, n \in LifeLengths, tag \in {<<21>>} :
       /\ (op = "collectAuthTag" /\ ~life.obj.disposed) =>
            life.obj.material.total
              < life.obj.alg.length + life.obj.alg.ivLength + life.obj.alg.authTagLength
                  + KeyTail + MaxTags
       /\ op = "setDetails" => n \in {0, 1}
       /\ op \notin {"read", "setDetails"} => n = 0
       /\ Called2(op, n, KeyMember(life.obj, op, n, tag))
  /\ UNCHANGED notLife

LifeStorage ==
  /\ life.kind = "InMemoryStorage"
  /\ \E op \in StorageMembers, b \in PutInputs, cb \in Callbacks :
       /\ op = "onDispose" => b = NullBlock
       /\ op # "onDispose" => cb = Listener(1, FALSE)
       /\ LET c == StorageMember(life.obj, op, b, b._id, b.sequence, cb)
          IN  life' = [life EXCEPT
                         !.prev = life.obj, !.obj = c.obj, !.op = op, !.n = b._id,
                         !.out = c.out, !.err = c.err,
                         !.registered = IF op = "onDispose" /\ ~life.obj.disposed
                                          THEN SetAdd(@, cb) ELSE @]
  /\ UNCHANGED notLife

LifeStorageDispose ==
  /\ life.kind = "InMemoryStorage"
  /\ LET d == disposeStorage(life.obj, life.runs)
     IN  life' = [life EXCEPT
                    !.prev = life.obj, !.obj = d.st, !.op = "dispose", !.n = 0,
                    !.out = OutUndefined, !.err = NoErr, !.runs = d.runs]
  /\ UNCHANGED notLife

LifeNext ==
  \/ LifeReader
  \/ LifeWriter
  \/ LifeHashEntity
  \/ LifeKey
  \/ LifeStorage
  \/ LifeStorageDispose

(***************************************************************************)
(* The sign run: one call of sign, with the token cancelled before the     *)
(* call or while the call waits.                                           *)
(***************************************************************************)
SignSources ==
  {Source(k, d) : k \in {"buffer", "pull", "reader", "stream"}, d \in {<<>>, <<1>>, <<1, 2>>}}
    \cup {Source("invalid", <<>>)}

SignAlgorithms == {AlgEd25519, AlgEcdsaSha512, AlgUnknown}

SignStarts ==
  {[SignOff EXCEPT !.pc = "start", !.algorithm = a, !.source = s, !.pre = c, !.cancelled = c] :
     a \in SignAlgorithms, s \in SignSources, c \in BOOLEAN}

SignInit ==
  /\ signRun \in SignStarts
  /\ life = LifeOff
  /\ armorRun = ArmorOff
  \* the codec is not run
  /\ cKind = "off"
  /\ cIn = VNull
  /\ cPc = "off"
  /\ cWriter = NewWriter
  /\ cReader = NewReader(<<>>)
  /\ cOut = VNull
  /\ cErr = NoErr
  \* the Merkle engine is not run
  /\ mLeaves = <<>>
  /\ mIndex = 0
  /\ mHashed = FALSE
  /\ mPc = "off"
  /\ mRoot = NewHashEntity(<<>>)
  /\ mProof = <<>>
  /\ mErr = NoErr
  /\ mTampered = FALSE
  /\ mVerified = FALSE
  \* the storage is new and the pipeline not called
  /\ blocksById = EmptyMap
  /\ blocksBySeq = EmptyMap
  /\ sDisposed = FALSE
  /\ sListeners = {"clearIndexes"}
  /\ lastOp = "none"
  /\ lastArg = NoArg
  /\ lastRet = NoRet
  /\ lastErr = NoErr
  /\ tokenCancelled = FALSE
  /\ kMaterial = NewReader(KeyBytes)
  /\ gPc = "idle"
  /\ gTx = [payload |-> VNull, sequence |-> 0]
  /\ gUsable = TRUE
  /\ gFreshKey = TRUE
  /\ gSignKey = <<>>
  /\ gBlock = NullBlock
  /\ gPending = Outcome(<<>>, NoErr)
  /\ gErr = NoErr
  /\ gBefore = <<EmptyMap, EmptyMap>>
  /\ gPutCalls = 0
  /\ lockRun = NoLocks
  /\ treeRun = TreeOff
  /\ keyGen = KeyGenOff
  /\ sem = SemOff
  /\ lazy = LazyOff

\* sign up to its await of consumeBuffer
SignCall ==
  /\ signRun.pc = "start"
  /\ signRun' =
       IF signRun.source.kind = "stream" /\ ~signRun.cancelled
         THEN [signRun EXCEPT !.pc = "streaming"]
         ELSE [signRun EXCEPT !.pc = "consumed",
                              !.payload = consumeSource(signRun.source, signRun.cancelled)]
  /\ UNCHANGED notSign

\* the "end" event of the stream
SignStreamEnd ==
  /\ signRun.pc = "streaming"
  /\ signRun' = [signRun EXCEPT
                   !.pc = "consumed",
                   !.payload = IF signRun.cancelled
                                 THEN Outcome(<<>>, "ERR_TOKEN_CANCELLED")
                                 ELSE Outcome(signRun.source.data, NoErr)]
  /\ UNCHANGED notSign

\* the "error" event of the stream
SignStreamError ==
  /\ signRun.pc = "streaming"
  /\ signRun' = [signRun EXCEPT !.pc = "consumed", !.payload = Outcome(<<>>, "StreamError")]
  /\ UNCHANGED notSign

\* token.cancel() while sign waits; the listener consumeBuffer registered
\* rejects the promise of a stream
SignCancel ==
  /\ signRun.pc \in {"streaming", "consumed"}
  /\ ~signRun.cancelled
  /\ signRun' =
       IF signRun.pc = "streaming"
         THEN [signRun EXCEPT !.cancelled = TRUE, !.pc = "consumed",
                              !.payload = Outcome(<<>>, "CancellationEvent")]
         ELSE [signRun EXCEPT !.cancelled = TRUE]
  /\ UNCHANGED notSign

\* the rest of sign
SignBody ==
  /\ signRun.pc = "consumed"
  /\ \E keyAccepted \in BOOLEAN :
       LET out == IF signRun.payload.err # NoErr THEN signRun.payload
                  ELSE signBody(signRun.algorithm, signRun.payload.out, keyAccepted,
                                signRun.cancelled)
       IN  signRun' = [signRun EXCEPT
                         !.pc = "done",
                         !.out = out,
                         !.signed = /\ signRun.payload.err = NoErr
                                    /\ signRun.algorithm # AlgUnknown
                                    /\ keyAccepted,
                         !.entity = (out.err = NoErr)]
  /\ UNCHANGED notSign

SignNext ==
  \/ SignCall
  \/ SignStreamEnd
  \/ SignStreamError
  \/ SignCancel
  \/ SignBody

(***************************************************************************)
(* The lock run: tasks that take the lock of a name, wait for it, hold it  *)
(* and release it, while locks are released by name and the registry is    *)
(* cleared.  runExclusive is Acquire, the callback, then Release.          *)
(***************************************************************************)
\* the module as loaded: no lock in the registry
LockInit ==
  /\ signRun = SignOff
  /\ life = LifeOff
  /\ armorRun = ArmorOff
  \* the codec is not run
  /\ cKind = "off"
  /\ cIn = VNull
  /\ cPc = "off"
  /\ cWriter = NewWriter
  /\ cReader = NewReader(<<>>)
  /\ cOut = VNull
  /\ cErr = NoErr
  \* the Merkle engine is not run
  /\ mLeaves = <<>>
  /\ mIndex = 0
  /\ mHashed = FALSE
  /\ mPc = "off"
  /\ mRoot = NewHashEntity(<<>>)
  /\ mProof = <<>>
  /\ mErr = NoErr
  /\ mTampered = FALSE
  /\ mVerified = FALSE
  \* the storage is new and the pipeline not called
  /\ blocksById = EmptyMap
  /\ blocksBySeq = EmptyMap
  /\ sDisposed = FALSE
  /\ sListeners = {"clearIndexes"}
  /\ lastOp = "none"
  /\ lastArg = NoArg
  /\ lastRet = NoRet
  /\ lastErr = NoErr
  /\ tokenCancelled = FALSE
  /\ kMaterial = NewReader(KeyBytes)
  /\ gPc = "idle"
  /\ gTx = [payload |-> VNull, sequence |-> 0]
  /\ gUsable = TRUE
  /\ gFreshKey = TRUE
  /\ gSignKey = <<>>
  /\ gBlock = NullBlock
  /\ gPending = Outcome(<<>>, NoErr)
  /\ gErr = NoErr
  /\ gBefore = <<EmptyMap, EmptyMap>>
  /\ gPutCalls = 0
  /\ lockRun = NoLocks
  /\ treeRun = TreeOff
  /\ keyGen = KeyGenOff
  /\ sem = SemOff
  /\ lazy = LazyOff

\* const m = NamedLock.getLock(name)
GetLock(t, name) ==
  /\ lockRun.tasks[t].pc \in {"idle", "left"}
  /\ lockRun.glocks[name] # 0 \/ Len(lockRun.mutexes) < MaxMutexes
  /\ lockRun' =
       [getLock(lockRun, name) EXCEPT
          !.tasks[t] = [IdleTask EXCEPT !.pc = "ready", !.name = name,
                                        !.mutex = getLock(lockRun, name).glocks[name]]]
  /\ UNCHANGED notLock

\* m.acquire(priority, timeout), up to the lock or to the queue
Acquire(t, priority, timed) ==
  /\ lockRun.tasks[t].pc = "ready"
  /\ LET m == lockRun.tasks[t].mutex
         s == lockRun.mutexes[m]
     IN  lockRun' =
           IF 1 <= s.value
             THEN [lockRun EXCEPT !.mutexes[m].value = s.value - 1,
                                  !.tasks[t].pc = "inside"]
             ELSE [lockRun EXCEPT
                     !.mutexes[m].queue = Enqueue(s.queue, lockRun.tasks, t, priority),
                     !.tasks[t].pc = "waiting",
                     !.tasks[t].priority = priority,
                     !.tasks[t].timed = timed]
  /\ UNCHANGED notLock

\* the timer of a task that waits
Timeout(t) ==
  /\ lockRun.tasks[t].pc = "waiting"
  /\ lockRun.tasks[t].timed
  /\ LET m == lockRun.tasks[t].mutex
         queue == lockRun.mutexes[m].queue
         Same(q) == q = t
         index == FindIndex(queue, Same)
     IN  lockRun' =
           [lockRun EXCEPT
              !.mutexes[m].queue = IF index >= 0 THEN SpliceOut(queue, index) ELSE queue,
              !.tasks[t] = [IdleTask EXCEPT !.err = "ERR_TIMEOUT"]]
  /\ UNCHANGED notLock

\* the releaser that acquire returned, called for the first time or again
Release(t) ==
  /\ lockRun.tasks[t].pc \in {"inside", "left"}
  /\ lockRun.tasks[t].calls < MaxCalls
  /\ LET m == lockRun.tasks[t].mutex
         flushed == semRelease(lockRun.mutexes[m])
     IN  lockRun' =
           IF lockRun.tasks[t].calls = 0
             THEN [lockRun EXCEPT
                     !.mutexes[m] = [value |-> flushed.value, queue |-> flushed.queue],
                     !.tasks = [q \in Tasks |->
                                  IF q = t
                                    THEN [lockRun.tasks[t] EXCEPT !.pc = "left", !.calls = 1]
                                  ELSE IF q \in flushed.resolved
                                    THEN [lockRun.tasks[q] EXCEPT !.pc = "inside",
                                                                  !.priority = 0,
                                                                  !.timed = FALSE]
                                  ELSE lockRun.tasks[q]]]
             ELSE [lockRun EXCEPT !.tasks[t].calls = lockRun.tasks[t].calls + 1]
  /\ UNCHANGED notLock

\* NamedLock.releaseLock(name)
ReleaseLock(name) ==
  /\ lockRun' = releaseLock(lockRun, name)
  /\ UNCHANGED notLock

\* NamedLock.clear()
Clear ==
  /\ lockRun' = clearLocks(lockRun, Names)
  /\ UNCHANGED notLock

LockNext ==
  \/ \E t \in Tasks, name \in Names : GetLock(t, name)
  \/ \E t \in Tasks, priority \in Priorities, timed \in BOOLEAN : Acquire(t, priority, timed)
  \/ \E t \in Tasks : Timeout(t)
  \/ \E t \in Tasks : Release(t)
  \/ \E name \in Names : ReleaseLock(name)
  \/ Clear

(***************************************************************************)
(* The tree run: the level loop of computeRoot and of generateProof, one   *)
(* step per pair task started, per pair task resumed and per level.  The   *)
(* run starts where the loop is entered: the level is the list of leaves   *)
(* and, for generateProof, index is the place of the target.  started,     *)
(* completed and placed record the pair tasks <<level, i>> started and     *)
(* completed and the place <<level, i, place>> each result was stored at;  *)
(* prev is the level before, anc the place of the target's ancestor.       *)
(***************************************************************************)
TreeStarts ==
  UNION {{[TreeOff EXCEPT !.pc = "while", !.fn = "generateProof",
                          !.level = [j \in 1..n |-> LeafOf(j)], !.index = x, !.anc = x] :
            x \in 0..(n - 1)} : n \in 1..MaxTreeLeaves}
  \cup
  {[TreeOff EXCEPT !.pc = "while", !.fn = "computeRoot", !.level = [j \in 1..n |-> LeafOf(j)]] :
     n \in 1..MaxTreeLeaves}

TreeInit ==
  /\ signRun = SignOff
  /\ life = LifeOff
  /\ armorRun = ArmorOff
  \* the codec is not run
  /\ cKind = "off"
  /\ cIn = VNull
  /\ cPc = "off"
  /\ cWriter = NewWriter
  /\ cReader = NewReader(<<>>)
  /\ cOut = VNull
  /\ cErr = NoErr
  \* the Merkle engine is not run
  /\ mLeaves = <<>>
  /\ mIndex = 0
  /\ mHashed = FALSE
  /\ mPc = "off"
  /\ mRoot = NewHashEntity(<<>>)
  /\ mProof = <<>>
  /\ mErr = NoErr
  /\ mTampered = FALSE
  /\ mVerified = FALSE
  \* the storage is new and the pipeline not called
  /\ blocksById = EmptyMap
  /\ blocksBySeq = EmptyMap
  /\ sDisposed = FALSE
  /\ sListeners = {"clearIndexes"}
  /\ lastOp = "none"
  /\ lastArg = NoArg
  /\ lastRet = NoRet
  /\ lastErr = NoErr
  /\ tokenCancelled = FALSE
  /\ kMaterial = NewReader(KeyBytes)
  /\ gPc = "idle"
  /\ gTx = [payload |-> VNull, sequence |-> 0]
  /\ gUsable = TRUE
  /\ gFreshKey = TRUE
  /\ gSignKey = <<>>
  /\ gBlock = NullBlock
  /\ gPending = Outcome(<<>>, NoErr)
  /\ gErr = NoErr
  /\ gBefore = <<EmptyMap, EmptyMap>>
  /\ gPutCalls = 0
  /\ lockRun = NoLocks
  /\ treeRun \in TreeStarts
  /\ keyGen = KeyGenOff
  /\ sem = SemOff
  /\ lazy = LazyOff

\* while(level.size() > 1)
TreeWhile ==
  /\ treeRun.pc = "while"
  /\ treeRun' =
       IF Len(treeRun.level) > 1
         THEN [treeRun EXCEPT !.pc = "for", !.i = 0, !.hashTasks = <<>>, !.values = <<>>,
                              !.next = <<>>]
         ELSE [treeRun EXCEPT !.pc = "done"]
  /\ UNCHANGED notTree

\* one turn of the for loop: the pair task is called and runs up to its await
TreeStartPair ==
  /\ treeRun.pc = "for"
  /\ treeRun.i < Len(treeRun.level)
  /\ LET left == treeRun.level[treeRun.i + 1]
         right == RightOf(treeRun.level, treeRun.i + 1)
         task == [k |-> Len(treeRun.hashTasks) + 1, i |-> treeRun.i, left |-> left,
                  right |-> right, combinedHash |-> hashData(left \o right)]
     IN  treeRun' = [treeRun EXCEPT
                       !.hashTasks = Append(treeRun.hashTasks, treeRun.i),
                       !.values = Append(treeRun.values, <<>>),
                       !.micro = Append(treeRun.micro, task),
                       !.started = treeRun.started \cup {<<treeRun.lvl, treeRun.i>>},
                       !.i = treeRun.i + 2]
  /\ UNCHANGED notTree

\* await Promise.all(tasks), reached when the for loop has ended
TreeAwaitAll ==
  /\ treeRun.pc = "for"
  /\ treeRun.i >= Len(treeRun.level)
  /\ treeRun' = [treeRun EXCEPT !.pc = "waiting"]
  /\ UNCHANGED notTree

\* the rest of a pair task, after its await
TreeResumePair ==
  /\ treeRun.pc = "waiting"
  /\ treeRun.micro # <<>>
  /\ LET d == dequeue(treeRun.micro)
         t == d.task
         done == treeRun.completed \cup {<<treeRun.lvl, t.i>>}
         next == Append(treeRun.next, t.combinedHash)
     IN  treeRun' =
           IF treeRun.fn = "computeRoot"
             THEN [treeRun EXCEPT !.micro = d.rest, !.completed = done,
                                  !.values[t.k] = t.combinedHash]
             ELSE [treeRun EXCEPT
                     !.micro = d.rest,
                     !.completed = done,
                     !.next = next,
                     !.placed = treeRun.placed \cup {<<treeRun.lvl, t.i, Len(next) - 1>>},
                     !.proof = IF t.i = treeRun.index \/ t.i + 1 = treeRun.index
                                 THEN Append(treeRun.proof,
                                        NewHashEntity(IF t.i = treeRun.index THEN t.right
                                                      ELSE t.left))
                                 ELSE treeRun.proof,
                     !.index = IF t.i = treeRun.index \/ t.i + 1 = treeRun.index
                                 THEN Len(next) - 1
                                 ELSE treeRun.index]
  /\ UNCHANGED notTree

\* Promise.all has every task's result: nextLevel is filled (computeRoot) and
\* becomes the level
TreeNextLevel ==
  /\ treeRun.pc = "waiting"
  /\ \A k \in 1..Len(treeRun.hashTasks) :
       <<treeRun.lvl, treeRun.hashTasks[k]>> \in treeRun.completed
  /\ treeRun' =
       [treeRun EXCEPT
          !.pc = "while",
          !.level = IF treeRun.fn = "computeRoot" THEN treeRun.values ELSE treeRun.next,
          !.placed = IF treeRun.fn = "computeRoot"
                       THEN treeRun.placed \cup
                              {<<treeRun.lvl, treeRun.hashTasks[k], k - 1>> :
                                 k \in 1..Len(treeRun.hashTasks)}
                       ELSE treeRun.placed,
          !.prev = treeRun.level,
          !.anc = treeRun.anc \div 2,
          !.lvl = treeRun.lvl + 1]
  /\ UNCHANGED notTree

TreeNext ==
  \/ TreeWhile
  \/ TreeStartPair
  \/ TreeAwaitAll
  \/ TreeResumePair
  \/ TreeNextLevel

(***************************************************************************)
(* The key generation run: one call of generateSymmetricKey, with the      *)
(* token cancelled before the call or while one of the two acquisitions    *)
(* of random bytes is pending.  generateRandomBytes belongs to another     *)
(* package: it is handed the token, and when it settles it either gives    *)
(* the bytes or, the token being cancelled, rejects with an error of its   *)
(* own making.  key is <<>> or the one key object returned.                *)
(***************************************************************************)
KeyGenStarts ==
  {[KeyGenOff EXCEPT !.pc = "start", !.length = l, !.ivLength = v, !.authTagLength = a,
                     !.entropy = e, !.cancelled = c] :
     l \in 0..MaxKeyPart, v \in 0..MaxKeyPart, a \in 0..MaxKeyPart, e \in BOOLEAN,
     c \in BOOLEAN}

\* what an acquisition can settle with: the bytes, or a rejection
ProviderOutcomes(n, cancelled) ==
  {Outcome(Bytes(n, 7), NoErr)}
    \cup (IF cancelled
            THEN {Outcome(<<>>, "ERR_TOKEN_CANCELLED"), Outcome(<<>>, "ProviderError")}
            ELSE {})

KeyGenInit ==
  /\ signRun = SignOff
  /\ life = LifeOff
  /\ armorRun = ArmorOff
  \* the codec is not run
  /\ cKind = "off"
  /\ cIn = VNull
  /\ cPc = "off"
  /\ cWriter = NewWriter
  /\ cReader = NewReader(<<>>)
  /\ cOut = VNull
  /\ cErr = NoErr
  \* the Merkle engine is not run
  /\ mLeaves = <<>>
  /\ mIndex = 0
  /\ mHashed = FALSE
  /\ mPc = "off"
  /\ mRoot = NewHashEntity(<<>>)
  /\ mProof = <<>>
  /\ mErr = NoErr
  /\ mTampered = FALSE
  /\ mVerified = FALSE
  \* the storage is new and the pipeline not called
  /\ blocksById = EmptyMap
  /\ blocksBySeq = EmptyMap
  /\ sDisposed = FALSE
  /\ sListeners = {"clearIndexes"}
  /\ lastOp = "none"
  /\ lastArg = NoArg
  /\ lastRet = NoRet
  /\ lastErr = NoErr
  /\ tokenCancelled = FALSE
  /\ kMaterial = NewReader(KeyBytes)
  /\ gPc = "idle"
  /\ gTx = [payload |-> VNull, sequence |-> 0]
  /\ gUsable = TRUE
  /\ gFreshKey = TRUE
  /\ gSignKey = <<>>
  /\ gBlock = NullBlock
  /\ gPending = Outcome(<<>>, NoErr)
  /\ gErr = NoErr
  /\ gBefore = <<EmptyMap, EmptyMap>>
  /\ gPutCalls = 0
  /\ lockRun = NoLocks
  /\ treeRun = TreeOff
  /\ keyGen \in KeyGenStarts
  /\ sem = SemOff
  /\ lazy = LazyOff

\* the call up to the first await
KeyGenCall ==
  /\ keyGen.pc = "start"
  /\ keyGen' = IF keyGen.cancelled
                 THEN [keyGen EXCEPT !.pc = "thrown", !.err = "ERR_TOKEN_CANCELLED"]
                 ELSE [keyGen EXCEPT !.pc = "first"]
  /\ UNCHANGED notKeyGen

\* token.cancel() while the call has not ended
KeyGenCancel ==
  /\ keyGen.pc \in {"first", "second"}
  /\ ~keyGen.cancelled
  /\ keyGen' = [keyGen EXCEPT !.cancelled = TRUE]
  /\ UNCHANGED notKeyGen

\* the first acquisition settles; the token is looked at; the second starts
KeyGenFirst ==
  /\ keyGen.pc = "first"
  /\ \E got \in ProviderOutcomes(keyGen.length + keyGen.ivLength + keyGen.authTagLength
                                   + KeyTail, keyGen.cancelled) :
       keyGen' =
         IF got.err # NoErr THEN [keyGen EXCEPT !.pc = "thrown", !.err = got.err]
         ELSE IF keyGen.cancelled
           THEN [keyGen EXCEPT !.pc = "thrown", !.err = "ERR_TOKEN_CANCELLED"]
         ELSE [keyGen EXCEPT !.pc = "second", !.buffer = got.out]
  /\ UNCHANGED notKeyGen

\* the second acquisition settles; the key object is made and returned
KeyGenSecond ==
  /\ keyGen.pc = "second"
  /\ \E got \in ProviderOutcomes(40, keyGen.cancelled) :
       keyGen' =
         IF got.err # NoErr THEN [keyGen EXCEPT !.pc = "thrown", !.err = got.err]
         ELSE [keyGen EXCEPT
                 !.pc = "returned",
                 !.key = <<generateSymmetricKey(keyGen.length, keyGen.ivLength,
                                                keyGen.authTagLength, keyGen.buffer,
                                                got.out)>>]
  /\ UNCHANGED notKeyGen

KeyGenNext ==
  \/ KeyGenCall
  \/ KeyGenCancel
  \/ KeyGenFirst
  \/ KeyGenSecond

(***************************************************************************)
(* The semaphore run: tasks that acquire a weight with a priority, wait,   *)
(* time out, hold and call their releaser once or more often, while the    *)
(* pending ones are cancelled.  A Mutex is the semaphore of capacity 1     *)
(* with every weight 1.                                                    *)
(***************************************************************************)
SemInit ==
  /\ signRun = SignOff
  /\ life = LifeOff
  /\ armorRun = ArmorOff
  \* the codec is not run
  /\ cKind = "off"
  /\ cIn = VNull
  /\ cPc = "off"
  /\ cWriter = NewWriter
  /\ cReader = NewReader(<<>>)
  /\ cOut = VNull
  /\ cErr = NoErr
  \* the Merkle engine is not run
  /\ mLeaves = <<>>
  /\ mIndex = 0
  /\ mHashed = FALSE
  /\ mPc = "off"
  /\ mRoot = NewHashEntity(<<>>)
  /\ mProof = <<>>
  /\ mErr = NoErr
  /\ mTampered = FALSE
  /\ mVerified = FALSE
  \* the storage is new and the pipeline not called
  /\ blocksById = EmptyMap
  /\ blocksBySeq = EmptyMap
  /\ sDisposed = FALSE
  /\ sListeners = {"clearIndexes"}
  /\ lastOp = "none"
  /\ lastArg = NoArg
  /\ lastRet = NoRet
  /\ lastErr = NoErr
  /\ tokenCancelled = FALSE
  /\ kMaterial = NewReader(KeyBytes)
  /\ gPc = "idle"
  /\ gTx = [payload |-> VNull, sequence |-> 0]
  /\ gUsable = TRUE
  /\ gFreshKey = TRUE
  /\ gSignKey = <<>>
  /\ gBlock = NullBlock
  /\ gPending = Outcome(<<>>, NoErr)
  /\ gErr = NoErr
  /\ gBefore = <<EmptyMap, EmptyMap>>
  /\ gPutCalls = 0
  /\ lockRun = NoLocks
  /\ treeRun = TreeOff
  /\ keyGen = KeyGenOff
  /\ sem \in {NewSem(iv) : iv \in 0..MaxPermits}
  /\ lazy = LazyOff

\* acquire(weight, priority, timeout), up to the permit or to the queue
SemAcquire(t, weight, priority, timed) ==
  /\ sem.tasks[t].pc \in {"idle", "released"}
  /\ sem' =
       IF tryLock(sem.value, weight)
         THEN [sem EXCEPT !.value = sem.value - weight,
                          !.tasks[t] = SemTask("holding", weight, 0, FALSE)]
         ELSE [sem EXCEPT
                 !.queue = Enqueue(sem.queue, sem.tasks, t, priority),
                 !.arrivals = Append(sem.arrivals, t),
                 !.tasks[t] = SemTask("waiting", weight, priority, timed)]
  /\ UNCHANGED notSem

\* the timer of a task that waits
SemTimeout(t) ==
  /\ sem.tasks[t].pc = "waiting"
  /\ sem.tasks[t].timed
  /\ sem' = [sem EXCEPT !.queue = Without(sem.queue, t),
                        !.arrivals = Without(sem.arrivals, t),
                        !.tasks[t] = SemTask("timedOut", 0, 0, FALSE)]
  /\ UNCHANGED notSem

\* a call of the releaser that acquire returned
SemRelease(t) ==
  /\ sem.tasks[t].pc \in {"holding", "released"}
  /\ sem.tasks[t].calls < MaxCalls
  /\ LET s == IF _createReleaser(sem.tasks[t].calls)
                THEN release(sem, sem.tasks[t].weight)
                ELSE sem
     IN  sem' = [s EXCEPT !.tasks[t].pc = "released",
                          !.tasks[t].calls = sem.tasks[t].calls + 1]
  /\ UNCHANGED notSem

\* cancelPending()
SemCancelPending ==
  /\ sem' = cancelPending(sem)
  /\ UNCHANGED notSem

SemNext ==
  \/ \E t \in Tasks, weight \in 1..MaxPermits, priority \in Priorities, timed \in BOOLEAN :
       SemAcquire(t, weight, priority, timed)
  \/ \E t \in Tasks : SemTimeout(t)
  \/ \E t \in Tasks : SemRelease(t)
  \/ SemCancelPending

(***************************************************************************)
(* The lazy run: accesses of AsyncLazy.value in any interleaving with the  *)
(* settling of the executions they started.                                *)
(***************************************************************************)
LazyInit ==
  /\ signRun = SignOff
  /\ life = LifeOff
  /\ armorRun = ArmorOff
  \* the codec is not run
  /\ cKind = "off"
  /\ cIn = VNull
  /\ cPc = "off"
  /\ cWriter = NewWriter
  /\ cReader = NewReader(<<>>)
  /\ cOut = VNull
  /\ cErr = NoErr
  \* the Merkle engine is not run
  /\ mLeaves = <<>>
  /\ mIndex = 0
  /\ mHashed = FALSE
  /\ mPc = "off"
  /\ mRoot = NewHashEntity(<<>>)
  /\ mProof = <<>>
  /\ mErr = NoErr
  /\ mTampered = FALSE
  /\ mVerified = FALSE
  \* the storage is new and the pipeline not called
  /\ blocksById = EmptyMap
  /\ blocksBySeq = EmptyMap
  /\ sDisposed = FALSE
  /\ sListeners = {"clearIndexes"}
  /\ lastOp = "none"
  /\ lastArg = NoArg
  /\ lastRet = NoRet
  /\ lastErr = NoErr
  /\ tokenCancelled = FALSE
  /\ kMaterial = NewReader(KeyBytes)
  /\ gPc = "idle"
  /\ gTx = [payload |-> VNull, sequence |-> 0]
  /\ gUsable = TRUE
  /\ gFreshKey = TRUE
  /\ gSignKey = <<>>
  /\ gBlock = NullBlock
  /\ gPending = Outcome(<<>>, NoErr)
  /\ gErr = NoErr
  /\ gBefore = <<EmptyMap, EmptyMap>>
  /\ gPutCalls = 0
  /\ lockRun = NoLocks
  /\ treeRun = TreeOff
  /\ keyGen = KeyGenOff
  /\ sem = SemOff
  /\ lazy = NewAsyncLazy

\* lazy.value is read
LazyAccess(a) ==
  /\ lazy.accesses[a].pc = "none"
  /\ lazy' = valueGetter(lazy, a)
  /\ UNCHANGED notLazy

\* the promise of the executor settles: the callbacks given to then
LazySettle(a, fails) ==
  /\ lazy.accesses[a].pc = "executing"
  /\ lazy' =
       IF fails
         THEN [lazy EXCEPT !._err = "ExecutorError",
                           !.accesses[a] = [pc |-> "rejectedRun", out |-> 0,
                                            err |-> "ExecutorError"]]
         ELSE [lazy EXCEPT !._value = lazy.accesses[a].out,
                           !.accesses[a].pc = "resolvedRun"]
  /\ UNCHANGED notLazy

\* the callback given to finally, one microtask later
LazyFinally(a) ==
  /\ lazy.accesses[a].pc \in {"resolvedRun", "rejectedRun"}
  /\ lazy' = [lazy EXCEPT
                !._didRun = TRUE,
                !.accesses[a].pc = IF lazy.accesses[a].pc = "resolvedRun"
                                     THEN "resolved" ELSE "rejected"]
  /\ UNCHANGED notLazy

LazyNext ==
  \/ \E a \in Accesses : LazyAccess(a)
  \/ \E a \in Accesses, fails \in BOOLEAN : LazySettle(a, fails)
  \/ \E a \in Accesses : LazyFinally(a)

(***************************************************************************)
(* The codec run: serialize into a writer, drain it into a reader,         *)
(* deserialize.                                                            *)
(***************************************************************************)
CodecInit ==
  /\ cKind \in {"codec", "vql"}
  /\ cIn \in (IF cKind = "codec" THEN CodecInputs ELSE {VInt(n) : n \in VqlInputs})
  /\ cPc = "start"
  /\ cWriter = NewWriter
  /\ cReader = NewReader(<<>>)
  /\ cOut = VNull
  /\ cErr = NoErr
  \* the Merkle engine is not run
  /\ mLeaves = <<>>
  /\ mIndex = 0
  /\ mHashed = FALSE
  /\ mPc = "off"
  /\ mRoot = NewHashEntity(<<>>)
  /\ mProof = <<>>
  /\ mErr = NoErr
  /\ mTampered = FALSE
  /\ mVerified = FALSE
  \* the storage is new and the pipeline not called
  /\ blocksById = EmptyMap
  /\ blocksBySeq = EmptyMap
  /\ sDisposed = FALSE
  /\ sListeners = {"clearIndexes"}
  /\ lastOp = "none"
  /\ lastArg = NoArg
  /\ lastRet = NoRet
  /\ lastErr = NoErr
  /\ tokenCancelled = FALSE
  /\ kMaterial = NewReader(KeyBytes)
  /\ gPc = "idle"
  /\ gTx = [payload |-> VNull, sequence |-> 0]
  /\ gUsable = TRUE
  /\ gFreshKey = TRUE
  /\ gSignKey = <<>>
  /\ gBlock = NullBlock
  /\ gPending = Outcome(<<>>, NoErr)
  /\ gErr = NoErr
  /\ gBefore = <<EmptyMap, EmptyMap>>
  /\ gPutCalls = 0
  /\ armorRun = ArmorOff
  /\ life = LifeOff
  /\ signRun = SignOff
  /\ lockRun = NoLocks
  /\ treeRun = TreeOff
  /\ keyGen = KeyGenOff
  /\ sem = SemOff
  /\ lazy = LazyOff

CodecSerialize ==
  /\ cPc = "start"
  /\ cKind = "codec"
  /\ cWriter' = serialize(cWriter, cIn)
  /\ cPc' = "written"
  /\ UNCHANGED <<cKind, cIn, cReader, cOut, cErr>>
  /\ UNCHANGED notCodec

CodecWriteVQL ==
  /\ cPc = "start"
  /\ cKind = "vql"
  /\ cWriter' = writeInt32VQL(cWriter, cIn.s)
  /\ cPc' = "written"
  /\ UNCHANGED <<cKind, cIn, cReader, cOut, cErr>>
  /\ UNCHANGED notCodec

\* new BufferReader(writer.drain())
CodecDrain ==
  /\ cPc = "written"
  /\ cReader' = NewReader(WriterDrain(cWriter))
  /\ cWriter' = [buffers |-> <<>>, bytes |-> 0, disposed |-> TRUE]
  /\ cPc' = "drained"
  /\ UNCHANGED <<cKind, cIn, cOut, cErr>>
  /\ UNCHANGED notCodec

CodecDeserialize ==
  /\ cPc = "drained"
  /\ cKind = "codec"
  /\ LET d == deserialize(cReader)
     IN  /\ cReader' = d.r
         /\ cOut' = d.val
         /\ cErr' = d.err
  /\ cPc' = "done"
  /\ UNCHANGED <<cKind, cIn, cWriter>>
  /\ UNCHANGED notCodec

CodecReadVQL ==
  /\ cPc = "drained"
  /\ cKind = "vql"
  /\ LET d == readIntVQL(cReader)
     IN  /\ cReader' = d.r
         /\ cOut' = VInt(d.val)
         /\ cErr' = d.err
  /\ cPc' = "done"
  /\ UNCHANGED <<cKind, cIn, cWriter>>
  /\ UNCHANGED notCodec

CodecNext ==
  \/ CodecSerialize
  \/ CodecWriteVQL
  \/ CodecDrain
  \/ CodecDeserialize
  \/ CodecReadVQL

(***************************************************************************)
(* The Merkle run: computeRoot, generateProof for one leaf, optionally the *)
(* replacement of one sibling, verifyProof.                                *)
(***************************************************************************)
LeafSamples == {<<1>>, <<2>>, <<3>>}

MerkleInit ==
  /\ mLeaves \in SeqUpTo(LeafSamples, MaxLeaves)
  /\ mIndex \in (IF mLeaves = <<>> THEN {0} ELSE 1..Len(mLeaves))
  /\ mHashed \in BOOLEAN
  /\ mPc = "start"
  /\ mRoot = NewHashEntity(<<>>)
  /\ mProof = <<>>
  /\ mErr = NoErr
  /\ mTampered = FALSE
  /\ mVerified = FALSE
  \* the codec is not run
  /\ cKind = "codec"
  /\ cIn = VNull
  /\ cPc = "off"
  /\ cWriter = NewWriter
  /\ cReader = NewReader(<<>>)
  /\ cOut = VNull
  /\ cErr = NoErr
  \* the storage is new and the pipeline not called
  /\ blocksById = EmptyMap
  /\ blocksBySeq = EmptyMap
  /\ sDisposed = FALSE
  /\ sListeners = {"clearIndexes"}
  /\ lastOp = "none"
  /\ lastArg = NoArg
  /\ lastRet = NoRet
  /\ lastErr = NoErr
  /\ tokenCancelled = FALSE
  /\ kMaterial = NewReader(KeyBytes)
  /\ gPc = "idle"
  /\ gTx = [payload |-> VNull, sequence |-> 0]
  /\ gUsable = TRUE
  /\ gFreshKey = TRUE
  /\ gSignKey = <<>>
  /\ gBlock = NullBlock
  /\ gPending = Outcome(<<>>, NoErr)
  /\ gErr = NoErr
  /\ gBefore = <<EmptyMap, EmptyMap>>
  /\ gPutCalls = 0
  /\ armorRun = ArmorOff
  /\ life = LifeOff
  /\ signRun = SignOff
  /\ lockRun = NoLocks
  /\ treeRun = TreeOff
  /\ keyGen = KeyGenOff
  /\ sem = SemOff
  /\ lazy = LazyOff

MerkleComputeRoot ==
  /\ mPc = "start"
  /\ mRoot' = computeRoot(mLeaves)
  /\ mPc' = "root"
  /\ UNCHANGED <<mLeaves, mIndex, mHashed, mProof, mErr, mTampered, mVerified>>
  /\ UNCHANGED notMerkle

MerkleGenerateProof ==
  /\ mPc = "root"
  /\ mIndex > 0
  /\ LET leaf == mLeaves[mIndex]
         g == generateProof(mLeaves, IF mHashed THEN hashData(leaf) ELSE leaf)
     IN  /\ mProof' = g.proof
         /\ mErr' = g.err
         /\ mPc' = IF g.err = NoErr THEN "proof" ELSE "failed"
  /\ UNCHANGED <<mLeaves, mIndex, mHashed, mRoot, mTampered, mVerified>>
  /\ UNCHANGED notMerkle

\* a sibling of the proof is replaced by other bytes
MerkleTamper ==
  /\ mPc = "proof"
  /\ ~mTampered
  /\ \E i \in 1..Len(mProof) :
       \E b \in LeafSamples \cup {hashData(x) : x \in LeafSamples} :
         /\ b # mProof[i].content.data
         /\ mProof' = [mProof EXCEPT ![i] = NewHashEntity(b)]
  /\ mTampered' = TRUE
  /\ UNCHANGED <<mLeaves, mIndex, mHashed, mPc, mRoot, mErr, mVerified>>
  /\ UNCHANGED notMerkle

MerkleVerifyProof ==
  /\ mPc = "proof"
  /\ LET v == verifyProof(mLeaves[mIndex], mProof, mRoot)
     IN  /\ mVerified' = v.out
         /\ mProof' = v.proof
         /\ mErr' = v.err
  /\ mPc' = "verified"
  /\ UNCHANGED <<mLeaves, mIndex, mHashed, mRoot, mTampered>>
  /\ UNCHANGED notMerkle

MerkleNext ==
  \/ MerkleComputeRoot
  \/ MerkleGenerateProof
  \/ MerkleTamper
  \/ MerkleVerifyProof

(***************************************************************************)
(* The storage as its clients call it.                                     *)
(***************************************************************************)
Running == gPc \notin {"idle", "returned", "thrown"}

ChainInit ==
  /\ blocksById = EmptyMap
  /\ blocksBySeq = EmptyMap
  /\ sDisposed = FALSE
  /\ sListeners = {"clearIndexes"}
  /\ lastOp = "none"
  /\ lastArg = NoArg
  /\ lastRet = NoRet
  /\ lastErr = NoErr
  /\ tokenCancelled = FALSE
  /\ kMaterial = NewReader(KeyBytes)
  /\ gPc = "idle"
  /\ gTx = [payload |-> VNull, sequence |-> 0]
  /\ gUsable = TRUE
  /\ gFreshKey = TRUE
  /\ gSignKey = <<>>
  /\ gBlock = NullBlock
  /\ gPending = Outcome(<<>>, NoErr)
  /\ gErr = NoErr
  /\ gBefore = <<EmptyMap, EmptyMap>>
  /\ gPutCalls = 0
  \* the codec is not run
  /\ cKind = "codec"
  /\ cIn = VNull
  /\ cPc = "off"
  /\ cWriter = NewWriter
  /\ cReader = NewReader(<<>>)
  /\ cOut = VNull
  /\ cErr = NoErr
  \* the Merkle engine is not run
  /\ mLeaves = <<>>
  /\ mIndex = 0
  /\ mHashed = FALSE
  /\ mPc = "off"
  /\ mRoot = NewHashEntity(<<>>)
  /\ mProof = <<>>
  /\ mErr = NoErr
  /\ mTampered = FALSE
  /\ mVerified = FALSE
  /\ armorRun = ArmorOff
  /\ life = LifeOff
  /\ signRun = SignOff
  /\ lockRun = NoLocks
  /\ treeRun = TreeOff
  /\ keyGen = KeyGenOff
  /\ sem = SemOff
  /\ lazy = LazyOff

Called(op, arg, ret, err) ==
  /\ lastOp' = op
  /\ lastArg' = arg
  /\ lastRet' = ret
  /\ lastErr' = err

StoragePutBlock ==
  /\ ~Running
  /\ \E b \in PutInputs :
       LET p == putBlock(blocksById, blocksBySeq, sDisposed, b)
       IN  /\ blocksById' = p.byId
           /\ blocksBySeq' = p.bySeq
           /\ Called("putBlock", Arg(b, b._id, b.sequence), Ret(p.ret, <<>>), p.err)
  /\ UNCHANGED <<sDisposed, sListeners, genesisVars>>
  /\ UNCHANGED notChain

StorageGetBlock ==
  /\ \E id \in Ids :
       IF sDisposed
         THEN Called("getBlock", Arg(NullBlock, id, 0), NoRet, "ERR_RESOURCE_DISPOSED")
         ELSE Called("getBlock", Arg(NullBlock, id, 0),
                     Ret(FALSE, IF MapHas(blocksById, id) THEN <<blocksById[id]>> ELSE <<>>),
                     NoErr)
  /\ UNCHANGED <<storageVars, genesisVars>>
  /\ UNCHANGED notChain

StorageHasBlock ==
  /\ \E id \in Ids :
       IF sDisposed
         THEN Called("hasBlock", Arg(NullBlock, id, 0), NoRet, "ERR_RESOURCE_DISPOSED")
         ELSE Called("hasBlock", Arg(NullBlock, id, 0), Ret(MapHas(blocksById, id), <<>>), NoErr)
  /\ UNCHANGED <<storageVars, genesisVars>>
  /\ UNCHANGED notChain

StorageGetBlockBySequence ==
  /\ \E seq \in Seqs :
       IF sDisposed
         THEN Called("getBlockBySequence", Arg(NullBlock, UndefinedId, seq), NoRet,
                     "ERR_RESOURCE_DISPOSED")
         ELSE Called("getBlockBySequence", Arg(NullBlock, UndefinedId, seq),
                     Ret(FALSE, IF MapHas(blocksBySeq, seq) THEN <<blocksBySeq[seq]>> ELSE <<>>),
                     NoErr)
  /\ UNCHANGED <<storageVars, genesisVars>>
  /\ UNCHANGED notChain

StorageGetAllBlocks ==
  /\ IF sDisposed
       THEN Called("getAllBlocks", NoArg, NoRet, "ERR_RESOURCE_DISPOSED")
       ELSE Called("getAllBlocks", NoArg, Ret(FALSE, getAllBlocks(blocksBySeq)), NoErr)
  /\ UNCHANGED <<storageVars, genesisVars>>
  /\ UNCHANGED notChain

\* AbstractStorageObject.dispose: [byId, bySeq]
dispose(byId, bySeq, disposed, listeners) ==
  IF ~disposed /\ "clearIndexes" \in listeners
    THEN <<EmptyMap, EmptyMap>>
    ELSE <<byId, bySeq>>

StorageDispose ==
  /\ ~Running
  /\ LET d == dispose(blocksById, blocksBySeq, sDisposed, sListeners)
     IN  /\ blocksById' = d[1]
         /\ blocksBySeq' = d[2]
  /\ sListeners' = {}
  /\ sDisposed' = TRUE
  /\ Called("dispose", NoArg, NoRet, NoErr)
  /\ UNCHANGED genesisVars
  /\ UNCHANGED notChain

(***************************************************************************)
(* generateGenesisBlock, one action per stretch of code between two        *)
(* awaits.                                                                 *)
(***************************************************************************)
Payloads == {VStr(<<120>>), VStr(<<120, 120>>), VNull}

Transactions == [payload : Payloads, sequence : Seqs]

\* the outcomes of a call into the signer or the JSON writer: it succeeds
\* when the key and the values are usable, and may fail otherwise
Accepts == IF gUsable THEN {TRUE} ELSE BOOLEAN

\* a token check that lets a cancelled token through
checkToken_ignored(cancelled) == NoErr

\* if(token.isCancellationRequested) throw ERR_TOKEN_CANCELLED
checkToken(cancelled) == IF cancelled THEN "ERR_TOKEN_CANCELLED" ELSE NoErr

Throw(err) ==
  /\ gPc' = "thrown"
  /\ gErr' = err

\* the call, up to the await of key.read()
GenesisCall ==
  /\ ~Running
  /\ \E tx \in Transactions, usable \in BOOLEAN, cancelled \in BOOLEAN, freshKey \in BOOLEAN :
       /\ gTx' = tx
       /\ gUsable' = usable
       /\ gFreshKey' = freshKey
       /\ tokenCancelled' = cancelled
       /\ kMaterial' = IF freshKey THEN NewReader(KeyBytes) ELSE kMaterial
       /\ IF checkToken(cancelled) # NoErr
            THEN Throw(checkToken(cancelled))
            ELSE /\ gPc' = "readKey"
                 /\ gErr' = NoErr
  /\ gSignKey' = <<>>
  /\ gBlock' = NullBlock
  /\ gPending' = Outcome(<<>>, NoErr)
  /\ gBefore' = <<blocksById, blocksBySeq>>
  /\ gPutCalls' = 0
  /\ UNCHANGED <<storageVars, clientVars>>
  /\ UNCHANGED notChain

\* token.cancel() by whoever holds the token source
Cancel ==
  /\ Running
  /\ ~tokenCancelled
  /\ tokenCancelled' = TRUE
  /\ UNCHANGED <<storageVars, clientVars, kMaterial, gPc, gTx, gUsable, gFreshKey, gSignKey, gBlock,
                 gPending, gErr, gBefore, gPutCalls>>
  /\ UNCHANGED notChain

\* signKey = await key.read()
GenesisReadKey ==
  /\ gPc = "readKey"
  /\ LET k == keyRead(kMaterial)
     IN  /\ kMaterial' = k.r
         /\ gSignKey' = k.out
         /\ IF k.err # NoErr
              THEN Throw(k.err)
              ELSE /\ gPc' = "merkle"
                   /\ gErr' = NoErr
  /\ UNCHANGED <<storageVars, clientVars, tokenCancelled, gTx, gUsable, gFreshKey, gBlock, gPending,
                 gBefore, gPutCalls>>
  /\ UNCHANGED notChain

\* merkleRoot = await createRoot(transaction); the headers; the payload
\* serialized; sign("Ed25519", ...) up to its await of consumeBuffer
GenesisMerkle ==
  /\ gPc = "merkle"
  /\ \E jsonOk \in Accepts :
     IF ~jsonOk
       THEN /\ Throw("JsonError")
            /\ UNCHANGED <<gBlock, gPending>>
       ELSE LET contentBuffer == serialize(NewWriter, gTx.payload)
                headers == [version |-> 1, nonce |-> 0,
                            contentLength |-> contentBuffer.bytes,
                            merkleRoot |-> createRoot(JsonText)]
            IN  /\ gBlock' = [gBlock EXCEPT !.headers = headers]
                /\ gPending' = consumeBuffer(WriterDrain(contentBuffer), tokenCancelled)
                /\ gPc' = "sign1"
                /\ gErr' = NoErr
  /\ UNCHANGED <<storageVars, clientVars, tokenCancelled, kMaterial, gTx, gUsable, gFreshKey, gSignKey,
                 gBefore, gPutCalls>>
  /\ UNCHANGED notChain

\* the rest of sign("Ed25519", ...)
GenesisSign1 ==
  /\ gPc = "sign1"
  /\ \E keyAccepted \in Accepts :
       gPending' = IF gPending.err # NoErr THEN gPending
                   ELSE signBody(AlgEd25519, gPending.out, keyAccepted, tokenCancelled)
  /\ gPc' = "assemble"
  /\ UNCHANGED <<storageVars, clientVars, tokenCancelled, kMaterial, gTx, gUsable, gFreshKey, gSignKey,
                 gBlock, gErr, gBefore, gPutCalls>>
  /\ UNCHANGED notChain

\* the block record; the block serialized as a generic object;
\* sign("ECDSA-SHA512", ...) up to its await of consumeBuffer
GenesisAssemble ==
  /\ gPc = "assemble"
  /\ IF gPending.err # NoErr
       THEN /\ Throw(gPending.err)
            /\ UNCHANGED <<gBlock, gPending>>
       ELSE \E id \in Ids, pub \in Ids, blockJsonOk \in Accepts :
              LET block == MakeBlock("object", id, pub, 0, gBlock.headers, <<gTx>>,
                                     <<NewHashEntity(gPending.out)>>, <<>>)
                  blockBuffer ==
                    WriterWrite(writeInt32VQL(WriterWrite(NewWriter, <<TagObject>>),
                                              NumOf(Len(JsonText))), JsonText)
              IN  /\ gBlock' = block
                  /\ IF ~blockJsonOk
                       THEN /\ Throw("JsonError")
                            /\ UNCHANGED gPending
                       ELSE /\ gPending' = consumeBuffer(WriterDrain(blockBuffer), tokenCancelled)
                            /\ gPc' = "sign2"
                            /\ gErr' = NoErr
  /\ UNCHANGED <<storageVars, clientVars, tokenCancelled, kMaterial, gTx, gUsable, gFreshKey, gSignKey,
                 gBefore, gPutCalls>>
  /\ UNCHANGED notChain

\* the rest of sign("ECDSA-SHA512", ...)
GenesisSign2 ==
  /\ gPc = "sign2"
  /\ \E keyAccepted \in Accepts :
       gPending' = IF gPending.err # NoErr THEN gPending
                   ELSE signBody(AlgEcdsaSha512, gPending.out, keyAccepted, tokenCancelled)
  /\ gPc' = "commit"
  /\ UNCHANGED <<storageVars, clientVars, tokenCancelled, kMaterial, gTx, gUsable, gFreshKey, gSignKey,
                 gBlock, gErr, gBefore, gPutCalls>>
  /\ UNCHANGED notChain

\* block.blockSignature; the second check of the token; storage.putBlock
GenesisCommit ==
  /\ gPc = "commit"
  /\ IF gPending.err # NoErr
       THEN /\ Throw(gPending.err)
            /\ UNCHANGED <<gBlock, gPending, blocksById, blocksBySeq, gPutCalls>>
       ELSE LET block == [gBlock EXCEPT !.blockSignature = <<NewHashEntity(gPending.out)>>]
                p == putBlock(blocksById, blocksBySeq, sDisposed, block)
            IN  /\ gBlock' = block
                /\ IF checkToken(tokenCancelled) # NoErr
                     THEN /\ Throw(checkToken(tokenCancelled))
                          /\ UNCHANGED <<gPending, blocksById, blocksBySeq, gPutCalls>>
                     ELSE /\ blocksById' = p.byId
                          /\ blocksBySeq' = p.bySeq
                          /\ gPending' = Outcome(IF p.ret THEN <<1>> ELSE <<0>>, p.err)
                          /\ gPutCalls' = gPutCalls + 1
                          /\ gPc' = "putDone"
                          /\ gErr' = NoErr
  /\ UNCHANGED <<sDisposed, sListeners, clientVars, tokenCancelled, kMaterial, gTx, gUsable, gFreshKey,
                 gSignKey, gBefore>>
  /\ UNCHANGED notChain

\* the result of putBlock; storage.dispose(); return block
GenesisFinish ==
  /\ gPc = "putDone"
  /\ IF gPending.err # NoErr
       THEN /\ Throw(gPending.err)
            /\ UNCHANGED storageVars
     ELSE IF gPending.out = <<0>>
       THEN /\ Throw("UNKNOWN_ERROR")
            /\ UNCHANGED storageVars
     ELSE LET d == dispose(blocksById, blocksBySeq, sDisposed, sListeners)
          IN  /\ blocksById' = d[1]
              /\ blocksBySeq' = d[2]
              /\ sListeners' = {}
              /\ sDisposed' = TRUE
              /\ gPc' = "returned"
              /\ gErr' = NoErr
  /\ UNCHANGED <<clientVars, tokenCancelled, kMaterial, gTx, gUsable, gFreshKey, gSignKey, gBlock,
                 gPending, gBefore, gPutCalls>>
  /\ UNCHANGED notChain

ChainNext ==
  \/ StoragePutBlock
  \/ StorageGetBlock
  \/ StorageHasBlock
  \/ StorageGetBlockBySequence
  \/ StorageGetAllBlocks
  \/ StorageDispose
  \/ GenesisCall
  \/ Cancel
  \/ GenesisReadKey
  \/ GenesisMerkle
  \/ GenesisSign1
  \/ GenesisAssemble
  \/ GenesisSign2
  \/ GenesisCommit
  \/ GenesisFinish

(***************************************************************************)
(* The specifications: the codec run, the Merkle run, and the storage with *)
(* the genesis pipeline.                                                   *)
(***************************************************************************)
CodecSpec == CodecInit /\ [][CodecNext]_vars

MerkleSpec == MerkleInit /\ [][MerkleNext]_vars

ChainSpec == ChainInit /\ [][ChainNext]_vars

ArmorSpec == ArmorInit /\ [][ArmorNext]_vars

LifeSpec == LifeInit /\ [][LifeNext]_vars

SignSpec == SignInit /\ [][SignNext]_vars

LockSpec == LockInit /\ [][LockNext]_vars

TreeSpec == TreeInit /\ [][TreeNext]_vars

LazySpec == LazyInit /\ [][LazyNext]_vars

SemSpec == SemInit /\ [][SemNext]_vars

KeyGenSpec == KeyGenInit /\ [][KeyGenNext]_vars

(***************************************************************************)
(* Properties of the codec.                                                *)
(***************************************************************************)

\* C1: every value accepted by serialize (null, strings, byte buffers,
\* integers with v === (v|0), arrays of these), once serialized into a
\* writer that is drained into a reader, is returned by deserialize
\* unchanged (undefined as null, Uint8Array as Buffer) and without error.
C1_CodecRoundTrip ==
  (cKind = "codec" /\ cPc = "done") => (cErr = NoErr /\ cOut = Narrow(cIn))

\* C2: for every integer n with 0 <= n < 2^32, readIntVQL over the bytes
\* written by writeInt32VQL(n) returns n itself, a non-negative number,
\* and writeInt32VQL(0) writes the single byte 0.
C2_VqlRoundTrip ==
  cKind = "vql" =>
    /\ (cPc = "done" => (cErr = NoErr /\ cOut = cIn))
    /\ ((cPc = "written" /\ cIn.s = Zero) => WriterDrain(cWriter) = <<0>>)

(***************************************************************************)
(* Properties of the Merkle engine.                                        *)
(***************************************************************************)

\* C3: for every non-empty list of leaves and every leaf of it,
\* generateProof(leaves, leaf) succeeds and verifyProof of that leaf with
\* the proof against computeRoot(leaves) is true, and is false once a
\* sibling of the proof has been changed.
C3_ProofSound ==
  (mIndex > 0 /\ ~mHashed) =>
    /\ mPc # "failed"
    /\ (mPc = "verified" => (mErr = NoErr /\ mVerified = ~mTampered))

\* C4 as stated: the root of a single leaf h is hashData(h || h), the lone
\* leaf being duplicated and hashed once.
C4_LoneLeafHashedOnce ==
  (mPc \in {"root", "proof", "failed", "verified"} /\ Len(mLeaves) = 1) =>
    ReaderBuffer(mRoot.content).out = hashData(mLeaves[1] \o mLeaves[1])

\* C4 as amended: the root of a single leaf h is a HashEntity over h itself;
\* a lone leaf is returned unchanged, neither duplicated nor hashed.
C4_LoneLeafUnchanged ==
  (mPc \in {"root", "proof", "failed", "verified"} /\ Len(mLeaves) = 1) =>
    mRoot = NewHashEntity(mLeaves[1])

C4_Witness == mPc = "root" /\ Len(mLeaves) = 1 /\ ReaderBuffer(mRoot.content).out = mLeaves[1]

(***************************************************************************)
(* Properties of the storage and of the genesis pipeline.                  *)
(***************************************************************************)
TxX == [payload |-> VStr(<<120>>), sequence |-> 0]

\* C5: generateGenesisBlock called with the in-memory storage (not
\* disposed), a usable key, the transaction {payload: "x", sequence: 0} and
\* a token that is not cancelled does not throw; it returns a block that is
\* in the storage, with sequence 0, previousHash "0" x 64, contentLength 3
\* and both signatures.
C5_GenesisSucceeds ==
  /\ ~(gPc = "thrown" /\ gTx = TxX /\ gUsable /\ gFreshKey /\ ~tokenCancelled /\ ~sDisposed)
  /\ (gPc = "returned" /\ gTx = TxX) =>
       /\ MapHas(blocksById, gBlock._id) /\ blocksById[gBlock._id] = gBlock
       /\ gBlock.sequence = 0
       /\ ReaderBuffer(gBlock.previousHash.content).out = GenesisHash
       /\ gBlock.headers.contentLength = 3
       /\ gBlock.contentSignature # <<>>
       /\ gBlock.blockSignature # <<>>

\* C6: on a storage that is not disposed, putBlock(b) returns true when b
\* is a record-shaped block whose _id is not stored yet, and returns false
\* without throwing when b._id is stored already or b fails validation,
\* also when b is null or not an object.
C6_PutBlockContract ==
  [][(StoragePutBlock /\ ~sDisposed) =>
       /\ lastErr' = NoErr
       /\ lastRet'.bool =
            (lastArg'.b.kind = "object" /\ ~MapHas(blocksById, lastArg'.b._id))]_vars

\* C10: the pipeline calls storage.putBlock only with both signatures made
\* and the token found not cancelled; a token cancelled at the first or at
\* the second checkpoint gives ERR_TOKEN_CANCELLED without a call of
\* putBlock; putBlock answering false makes the pipeline throw; and
\* whenever the pipeline throws, the two indexes are as they were when it
\* was called.
C10_NoPartialCommit ==
  [][/\ (gPutCalls' > gPutCalls =>
           /\ gBlock'.contentSignature # <<>>
           /\ gBlock'.blockSignature # <<>>
           /\ ~tokenCancelled)
     /\ ((~Running /\ gPc' # gPc /\ tokenCancelled') =>
           (gPc' = "thrown" /\ gErr' = "ERR_TOKEN_CANCELLED"))
     /\ ((gPc = "commit" /\ gPc' # gPc /\ gPending.err = NoErr /\ tokenCancelled) =>
           (gPc' = "thrown" /\ gErr' = "ERR_TOKEN_CANCELLED" /\ gPutCalls' = gPutCalls))
     /\ ((gPc = "putDone" /\ gPc' # gPc /\ gPending.out = <<0>>) => gPc' = "thrown")
     /\ ((gPc' = "thrown" /\ genesisVars' # genesisVars) =>
           <<blocksById', blocksBySeq'>> = gBefore')]_vars

C10_Witness ==
  /\ gPc = "thrown"
  /\ gErr = "UNKNOWN_ERROR"
  /\ gPutCalls = 1
  /\ gBlock.blockSignature # <<>>
  /\ <<blocksById, blocksBySeq>> = gBefore

(***************************************************************************)
(* Properties of armor and dearmor.                                        *)
(***************************************************************************)
KeyLength(key) == IF chunkToBuffer(key).err = NoErr THEN Len(chunkToBuffer(key).out) ELSE 0

\* dearmor is given the key armor had, and is told the encoding armor wrote
SameKeyAndEncoding ==
  /\ armorRun.deKey = armorRun.key
  /\ (armorRun.armored.out.t = "string") => (armorRun.inEnc = "base64")

\* C13: for every source byte sequence, dearmor(armor(false, src)) = src,
\* and for every key of at least 32 bytes dearmor(armor(true, src, key), key)
\* = src; the same holds when armor emits a base64 string and dearmor is
\* told that its input is base64.
C13_ArmorRoundTrip ==
  (~armorRun.e \/ KeyLength(armorRun.key) >= 32) =>
    /\ (armorRun.pc = "armored" => armorRun.armored.err = NoErr)
    /\ ((armorRun.pc = "dearmored" /\ SameKeyAndEncoding) =>
          armorRun.out = Outcome(armorRun.src, NoErr))

\* an encrypted envelope written as base64 has been read back
C13_Witness ==
  /\ armorRun.pc = "dearmored"
  /\ armorRun.e
  /\ armorRun.enc = "base64"
  /\ armorRun.inEnc = "base64"
  /\ armorRun.deKey = armorRun.key
  /\ Len(armorRun.src) = 17
  /\ armorRun.out = Outcome(armorRun.src, NoErr)

\* the bytes dearmor was given in the last call
InputBytes == dearmorBuffer(armorRun.input, armorRun.inEnc).out

MagicMatchesIn(bytes) ==
  /\ Len(bytes) >= Len(ARMORED_CONTENT_MAGIC_BUFFER)
  /\ \A i \in 1..Len(ARMORED_CONTENT_MAGIC_BUFFER) : bytes[i] = ARMORED_CONTENT_MAGIC_BUFFER[i]

FlagOf(bytes) ==
  IF Len(bytes) > Len(ARMORED_CONTENT_MAGIC_BUFFER)
    THEN bytes[Len(ARMORED_CONTENT_MAGIC_BUFFER) + 1]
    ELSE -1

\* C14: dearmor fails with ERR_MAGIC_NUMBER_MISSMATCH when the first 20
\* bytes of its input are not the magic (inputs shorter than 20 bytes
\* included); otherwise it fails with ERR_INVALID_BITFLAG when the byte
\* after the magic is neither 0 nor 1 or is absent; the magic is checked
\* before the flag.
C14_HeaderValidation ==
  armorRun.pc \in {"checked", "dearmored"} =>
    LET bytes == InputBytes
        magic == MagicMatchesIn(bytes)
        flag  == FlagOf(bytes)
    IN  /\ ~magic => armorRun.out = Outcome(<<>>, "ERR_MAGIC_NUMBER_MISSMATCH")
        /\ (magic /\ flag \notin {0, 1}) => armorRun.out = Outcome(<<>>, "ERR_INVALID_BITFLAG")
        /\ (magic /\ flag \in {0, 1}) =>
             armorRun.out.err \notin {"ERR_MAGIC_NUMBER_MISSMATCH", "ERR_INVALID_BITFLAG"}

\* the magic followed by a flag that is neither 0 nor 1 has been refused
C14_Witness ==
  /\ armorRun.pc = "checked"
  /\ MagicMatchesIn(InputBytes)
  /\ Len(InputBytes) > 21
  /\ FlagOf(InputBytes) = 99
  /\ armorRun.out.err = "ERR_INVALID_BITFLAG"

\* C15: armor(true, src, key), and dearmor of a flag-1 envelope with key,
\* fail with ERR_CRYPTO_KEY_SHORT for every key of fewer than 32 bytes, an
\* empty or omitted key included, and produce no output then.
C15_ShortKey ==
  /\ (armorRun.pc = "armored" /\ armorRun.e /\ KeyLength(armorRun.key) < 32) =>
       armorRun.armored = Outcome(NoChunk, "ERR_CRYPTO_KEY_SHORT")
  /\ (/\ armorRun.pc \in {"checked", "dearmored"}
      /\ KeyLength(armorRun.deKey) < 32
      /\ LET bytes == InputBytes IN MagicMatchesIn(bytes) /\ FlagOf(bytes) = 1) =>
       armorRun.out = Outcome(<<>>, "ERR_CRYPTO_KEY_SHORT")

(***************************************************************************)
(* Properties of the disposable objects.                                   *)
(***************************************************************************)
\* C11: for BufferReader, BufferWriter, HashEntity, HyChainKeyObject and
\* InMemoryStorage, once dispose() has been called every public accessor
\* or operation but dispose fails with ERR_RESOURCE_DISPOSED, and a further
\* dispose() does not throw.
C11_PostDispose ==
  (life.op # "none" /\ life.prev.disposed) =>
    IF life.op = "dispose" THEN life.err = NoErr ELSE life.err = Disposed

\* C12: dispose() on a storage runs every callback registered through
\* onDispose exactly once, goes on with the remaining callbacks when one
\* throws and lets no exception out; a second dispose() runs no callback;
\* the two indexes are empty after disposal.
C12_DisposeLifecycle ==
  life.kind = "InMemoryStorage" =>
    /\ life.op = "dispose" => life.err = NoErr
    /\ \A id \in DOMAIN life.runs :
         life.runs[id] =
           IF life.obj.disposed /\ (\E i \in 1..Len(life.registered) : life.registered[i].id = id)
             THEN 1 ELSE 0
    /\ life.obj.disposed =>
         /\ life.obj.byId = EmptyMap
         /\ life.obj.bySeq = EmptyMap
         /\ life.obj.listeners = <<>>

\* dispose has been called a second time on a storage that had a throwing
\* callback registered before one that returns
C12_Witness ==
  /\ life.kind = "InMemoryStorage"
  /\ life.op = "dispose"
  /\ life.prev.disposed
  /\ life.registered = <<ClearIndexes, Listener(2, TRUE), Listener(3, FALSE)>>
  /\ life.runs[2] = 1
  /\ life.runs[3] = 1

\* C17: for a BufferReader over L bytes with cursor c, read(n) returns the
\* next n bytes [c, c+n) and advances the cursor by n; read() returns the
\* bytes [c, L) and leaves the cursor at L; a read past the end of the data
\* fails with ERR_END_OF_STREAM.
C17_ReaderCursor ==
  (life.kind = "BufferReader" /\ life.op = "read" /\ ~life.prev.disposed) =>
    LET c == life.prev.cursor
        L == life.prev.total
        n == life.n
    IN  /\ (n < 0 /\ c < L) =>
             /\ life.err = NoErr
             /\ life.out = OutBytes(Slice(life.prev.data, c, L))
             /\ life.obj.cursor = L
        /\ (n > 0 /\ c + n <= L) =>
             /\ life.err = NoErr
             /\ life.out = OutBytes(Slice(life.prev.data, c, c + n))
             /\ life.obj.cursor = c + n
        /\ ((n < 0 /\ c >= L) \/ (n > 0 /\ c + n > L)) => life.err = "ERR_END_OF_STREAM"

\* C18: for a secret key made by generateSymmetricKey, master() is the
\* bytes [0, length), iv() the next ivLength bytes, authTag() the next
\* authTagLength bytes and leftBuffer() all that follows, and the four
\* concatenated are the raw bytes of the key whenever none of them is null.
C18_KeyRegions ==
  (life.kind = "HyChainKeyObject" /\ life.obj.alg.kind = "secret" /\ ~life.obj.disposed) =>
    LET k == life.obj
        raw == ReaderBuffer(k.material)
        m == KeyMember(k, "master", 0, <<>>)
        i == KeyMember(k, "iv", 0, <<>>)
        a == KeyMember(k, "authTag", 0, <<>>)
        l == KeyMember(k, "leftBuffer", 0, <<>>)
        len == k.alg.length
        ivEnd == len + k.alg.ivLength
        tagEnd == ivEnd + k.alg.authTagLength
    IN  raw.err = NoErr =>
          /\ m.out = OutBytes(Slice(raw.out, 0, len))
          /\ i.out.t = "buffer" => i.out.v = Slice(raw.out, len, ivEnd)
          /\ a.out.t = "buffer" => a.out.v = Slice(raw.out, ivEnd, tagEnd)
          /\ l.out.t = "buffer" => l.out.v = Slice(raw.out, tagEnd, Len(raw.out))
          /\ (i.out.t = "buffer" /\ a.out.t = "buffer" /\ l.out.t = "buffer") =>
               m.out.v \o i.out.v \o a.out.v \o l.out.v = raw.out

\* authTag() has returned the tag region of a key that has the three regions
C18_Witness ==
  /\ life.kind = "HyChainKeyObject"
  /\ life.obj.alg = NewAlg("secret", 2, 2, 1)
  /\ life.op = "authTag"
  /\ life.out = OutBytes(<<105>>)
  /\ KeyMember(life.obj, "leftBuffer", 0, <<>>).out = OutBytes(Slice(KeyRandom, 5, 13))

(***************************************************************************)
(* Properties of sign.                                                     *)
(***************************************************************************)
\* C16: for every algorithm, known or not, and every source, sign called
\* with a token that is already cancelled fails with ERR_TOKEN_CANCELLED
\* before any signature or HashEntity is made.
C16_PreCancelledSign ==
  signRun.pre =>
    /\ ~signRun.signed
    /\ ~signRun.entity
    /\ signRun.pc \in {"consumed", "done"} =>
         signRun.payload = Outcome(<<>>, "ERR_TOKEN_CANCELLED")
    /\ signRun.pc = "done" => signRun.out = Outcome(<<>>, "ERR_TOKEN_CANCELLED")

\* sign has ended for an unknown algorithm and a source that cannot be read
C16_Witness ==
  /\ signRun.pre
  /\ signRun.pc = "done"
  /\ signRun.algorithm = AlgUnknown
  /\ signRun.source = Source("invalid", <<>>)
  /\ signRun.out.err = "ERR_TOKEN_CANCELLED"

\* C23: consumeBuffer (and so sign) given a BufferReader with unread bytes
\* ends and returns exactly those bytes in order; given a pull reader whose
\* readable flag is false it fails with ERR_STREAM_CLOSED.
C23_DrainReader ==
  (signRun.source.kind = "reader" /\ ~signRun.pre /\ signRun.pc \in {"consumed", "done"}) =>
    IF signRun.source.data # <<>>
      THEN signRun.payload = Outcome(signRun.source.data, NoErr)
      ELSE signRun.payload.err = "ERR_STREAM_CLOSED"

\* C24: whenever consumeBuffer fails because the token was cancelled, be it
\* before the call or while a push stream is being drained, the failure is
\* ERR_TOKEN_CANCELLED.
C24_CancellationMapping ==
  [][/\ (signRun.pc = "start" /\ signRun.cancelled /\ signRun'.pc = "consumed") =>
          signRun'.payload = Outcome(<<>>, "ERR_TOKEN_CANCELLED")
     /\ (signRun.pc = "streaming" /\ signRun'.cancelled /\ signRun'.pc = "consumed") =>
          signRun'.payload = Outcome(<<>>, "ERR_TOKEN_CANCELLED")]_vars

(***************************************************************************)
(* Properties of the named locks.                                          *)
(***************************************************************************)
\* the tasks inside a critical section they entered with the lock of a name
InsideFor(name) ==
  {t \in Tasks : lockRun.tasks[t].pc = "inside" /\ lockRun.tasks[t].name = name}

\* C19: for every name, whatever the interleaving of getLock, acquire or
\* runExclusive, the releasers, releaseLock and clear, at most one task at a
\* time is inside a critical section guarded by the lock of that name.
C19_NamedExclusion ==
  \A name \in Names : Cardinality(InsideFor(name)) <= 1

(***************************************************************************)
(* Properties of the level loop of the Merkle engine.                      *)
(***************************************************************************)
\* no pair task of a later level has started while one of an earlier level
\* has not completed
LevelBarrier ==
  \A s \in treeRun.started, t \in treeRun.started :
    s[1] > t[1] => t \in treeRun.completed

\* every result was stored at floor(i/2), and a level that has been built
\* is the pair hashes of the level before, in pair order
PairPlacement ==
  /\ \A p \in treeRun.placed : p[3] = p[2] \div 2
  /\ (treeRun.lvl > 0 /\ treeRun.pc \in {"while", "done"}) =>
       treeRun.level = NextLevel(treeRun.prev)

\* between two levels the index that generateProof tracks is the place of
\* the target's ancestor
TargetTracked ==
  (treeRun.fn = "generateProof" /\ treeRun.pc \in {"while", "done"}) =>
    treeRun.index = treeRun.anc

\* C20: in computeRoot and generateProof no pair-hash of level k+1 starts
\* before every pair-hash of level k has completed, the result of the pair
\* starting at index i is stored at index floor(i/2) of the next level for
\* every order in which the pair tasks can complete, and the index tracked
\* by generateProof designates the target's ancestor.
C20_LevelBarrierAndPlacement ==
  /\ LevelBarrier
  /\ PairPlacement
  /\ TargetTracked

\* generateProof has ended over five leaves: three levels were built, the
\* first of three pairs, and the proof has one sibling per level
C20_Witness ==
  /\ treeRun.fn = "generateProof"
  /\ treeRun.pc = "done"
  /\ treeRun.lvl = 3
  /\ Len(treeRun.proof) = 3
  /\ \E p \in treeRun.placed : p[1] = 0 /\ p[2] = 4 /\ p[3] = 2

(***************************************************************************)
(* Properties of key generation.                                           *)
(***************************************************************************)
\* C21: generateSymmetricKey whose token is cancelled at any time before
\* the second acquisition of random bytes has completed fails with
\* ERR_TOKEN_CANCELLED and returns no key object.
C21_KeyGenCancellation ==
  (keyGen.cancelled /\ keyGen.pc \in {"returned", "thrown"}) =>
    /\ keyGen.pc = "thrown"
    /\ keyGen.err = "ERR_TOKEN_CANCELLED"
    /\ keyGen.key = <<>>

(***************************************************************************)
(* Properties of the key object.                                           *)
(***************************************************************************)
\* the latest call was collectAuthTag(tag) on a key that was not disposed
CollectedTag ==
  /\ life.kind = "HyChainKeyObject"
  /\ life.op = "collectAuthTag"
  /\ ~life.prev.disposed

\* C22: on a secret key, collectAuthTag(tag) with a tag of authTagLength
\* bytes succeeds, after it authTag() returns the tag and master() and iv()
\* return what they returned before; on a public or private key it fails
\* with ERR_UNSUPPORTED_OPERATION and the key material is as it was.
C22_CollectAuthTag ==
  CollectedTag =>
    IF life.prev.alg.kind = "secret"
      THEN life.prev.alg.authTagLength = 1 =>
             /\ life.err = NoErr
             /\ KeyMember(life.obj, "authTag", 0, <<>>) = Call(life.obj, OutBytes(<<21>>), NoErr)
             /\ KeyMember(life.obj, "master", 0, <<>>).out
                  = KeyMember(life.prev, "master", 0, <<>>).out
             /\ KeyMember(life.obj, "iv", 0, <<>>).out = KeyMember(life.prev, "iv", 0, <<>>).out
      ELSE /\ life.err = "ERR_UNSUPPORTED_OPERATION"
           /\ life.obj = life.prev

\* what a region accessor of key k returns or throws
Accessed(k, op) ==
  [out |-> KeyMember(k, op, 0, <<>>).out, err |-> KeyMember(k, op, 0, <<>>).err]

\* C27: on a key that is not disposed, master(), iv(), authTag(),
\* leftBuffer() and armor() return after a call of read() what they
\* returned before it, so also after any number of such calls.
C27_ReadsKeepRegions ==
  (life.kind = "HyChainKeyObject" /\ life.op = "read" /\ ~life.prev.disposed) =>
    \A op \in {"master", "iv", "authTag", "leftBuffer", "armor"} :
      Accessed(life.obj, op) = Accessed(life.prev, op)

(***************************************************************************)
(* Properties of the hash entity.  life.given is the bytes the entity was  *)
(* constructed over, life.usedRead tells whether read was ever called, and *)
(* after equals life.written is the bytes the entity was compared with.    *)
(***************************************************************************)
\* C26: on a HashEntity that is not disposed and on which read was never
\* called, every call of digest, bytes, buffer, arrayBuffer and equals, in
\* any sequence, succeeds and reports the full bytes given at construction.
C26_AccessorsRepeatable ==
  (life.kind = "HashEntity" /\ ~life.usedRead /\ ~life.prev.disposed) =>
    /\ life.op \in {"digest", "bytes", "buffer", "arrayBuffer", "equals"} => life.err = NoErr
    /\ life.op \in {"bytes", "buffer", "arrayBuffer"} => life.out = OutBytes(life.given)
    /\ life.op = "digest" => life.out = OutString(base64Encode(life.given))
    /\ life.op = "equals" => life.out = OutBool(life.written = life.given)

(***************************************************************************)
(* Properties of the writer.  life.written is the chunks given to write    *)
(* while the writer was not disposed, concatenated in the order of the     *)
(* calls.                                                                  *)
(***************************************************************************)
\* C25: while a BufferWriter is not disposed, byteLength is the sum of the
\* lengths of the chunks written and buffer their concatenation in write
\* order; drain returns that concatenation and leaves the writer disposed,
\* after which write, byteLength, buffer and drain fail with
\* ERR_RESOURCE_DISPOSED.
C25_WriterAccumulates ==
  life.kind = "BufferWriter" =>
    /\ ~life.obj.disposed =>
         /\ WriterMember(life.obj, "byteLength", <<>>).out = OutNum(Len(life.written))
         /\ WriterMember(life.obj, "buffer", <<>>).out = OutBytes(life.written)
         /\ WriterMember(life.obj, "drain", <<>>).out = OutBytes(life.written)
         /\ WriterMember(life.obj, "drain", <<>>).err = NoErr
         /\ WriterMember(life.obj, "drain", <<>>).obj.disposed
    /\ life.obj.disposed =>
         \A op \in {"write", "byteLength", "buffer", "drain"} :
           WriterMember(life.obj, op, <<21>>).err = Disposed
    /\ (life.op = "drain" /\ ~life.prev.disposed) =>
         /\ life.out = OutBytes(life.written)
         /\ life.err = NoErr
         /\ life.obj.disposed

\* drain has returned two different chunks in the order they were written
C25_Witness ==
  /\ life.kind = "BufferWriter"
  /\ life.op = "drain"
  /\ life.out = OutBytes(<<21, 11, 12, 13, 14, 15, 16, 17>>)
  /\ Len(life.prev.buffers) = 2
  /\ life.obj.disposed

(***************************************************************************)
(* Properties of the semaphore.                                            *)
(***************************************************************************)
\* task t stands before task u in the order of the calls of acquire
ArrivedBefore(t, u) ==
  \E i, j \in 1..Len(sem.arrivals) :
    i < j /\ sem.arrivals[i] = t /\ sem.arrivals[j] = u

\* C28: a waiter is granted only when no other waiter that would have fit
\* has a higher priority, or the same priority and an earlier call of
\* acquire: grants go by descending priority and, within a priority, in
\* the order of the calls.
C28_GrantOrder ==
  [][\A t \in Tasks, u \in Tasks :
       (/\ sem.tasks[t].pc = "waiting" /\ sem'.tasks[t].pc = "holding"
        /\ sem.tasks[u].pc = "waiting" /\ sem'.tasks[u].pc = "waiting"
        /\ sem.tasks[u].weight <= sem.tasks[t].weight) =>
         \/ sem.tasks[u].priority < sem.tasks[t].priority
         \/ sem.tasks[u].priority = sem.tasks[t].priority /\ ArrivedBefore(t, u)]_vars


\* the weights of the acquisitions granted and not yet released
HeldWeight ==
  SumSeq([t \in 1..MaxTasks |-> IF sem.tasks[t].pc = "holding" THEN sem.tasks[t].weight ELSE 0])

PermitsConserved ==
  /\ 0 <= sem.value
  /\ sem.value <= sem.capacity
  /\ sem.value + HeldWeight = sem.capacity

\* C29: for a Semaphore of capacity N used through acquire and the
\* releasers it returns, 0 <= value <= N and value plus the weights granted
\* and not released is N in every state, a releaser called again releases
\* nothing, and a waiter that timed out or was rejected by cancelPending is
\* never granted a permit afterwards.
C29_PermitConservation ==
  [][/\ PermitsConserved'
     /\ \A t \in Tasks :
          sem.tasks[t].pc \in {"timedOut", "cancelled"} => sem'.tasks[t] = sem.tasks[t]
     /\ \A t \in Tasks :
          (sem.tasks[t].pc = "released" /\ sem'.tasks[t].calls > sem.tasks[t].calls) =>
            sem'.value = sem.value]_vars

\* a releaser was called twice, one waiter timed out, one was rejected by
\* cancelPending, and a permit is held
C29_Witness ==
  /\ \E t \in Tasks : sem.tasks[t].calls = 2
  /\ \E t \in Tasks : sem.tasks[t].pc = "timedOut"
  /\ \E t \in Tasks : sem.tasks[t].pc = "holding"
  /\ PermitsConserved

(***************************************************************************)
(* Properties of AsyncLazy.                                                *)
(***************************************************************************)
\* the accesses that have settled
Settled ==
  {a \in Accesses : lazy.accesses[a].pc \in {"resolved", "rejected", "resolvedRun", "rejectedRun"}}

\* C30: whatever the interleaving of the accesses of AsyncLazy.value, a
\* second access while the first execution is pending included, the
\* executor is invoked at most once, every access settles with the same
\* value or the same error, and hasValue is true only after the execution
\* has settled.
C30_ExecutorOnce ==
  /\ lazy.runs <= 1
  /\ \A a \in Settled, b \in Settled :
       /\ lazy.accesses[a].out = lazy.accesses[b].out
       /\ lazy.accesses[a].err = lazy.accesses[b].err
  /\ lazy._didRun => Settled # {}

=============================================================================
